---- MODULE Spec2Model ----
(***************************************************************************)
(* Model of the Justice Laws full-text extractor (scripts/lib/parser.ts).  *)
(*                                                                         *)
(* A page is a sequence of markup elements in the shapes the parser's      *)
(* header lists (lines 9-19).  Every element carries its payload text as a *)
(* sequence of one-character strings, the length n of its running text,    *)
(* its width w in characters and the offset `at` inside it at which the    *)
(* parser's regular expression for that element starts to match.  Offsets  *)
(* in the page are sums of widths, so the distance and order tests of the  *)
(* parser are computed on real character offsets.  Payload text holds no   *)
(* markup and no character entity.                                         *)
(***************************************************************************)
EXTENDS Integers, Sequences, FiniteSets, TLC

VARIABLES html, act, pc, out, firstIn, firstOut, seenOther

\* The fetcher: time is kept relative, in
\* milliseconds.  elapsed is now - lastRequestTime and sincePrevious the time
\* since the latest HTTP request started, both saturating at MIN_DELAY_MS,
\* the only value either is compared with; gap is the value sincePrevious
\* had when the latest request started; calls holds one record per call of
\* fetchWithRateLimit.
VARIABLES elapsed, sincePrevious, gap, calls

\* The ingestion loop (scripts/ingest.ts, fetchAndParseActs): acts and
\* skipFetch are its arguments, actIndex the place of the loop in acts,
\* sourceFiles and seedFiles the contents of data/source and data/seed by
\* act id, result what fetchActFullText returned in the latest turn of the
\* loop, parserCalls the ids parseFullTextHtml was called for, fetchCalls
\* the ids fetchActFullText was called for, phase the position of the run;
\* the other variables are the function's own.
VARIABLES acts, skipFetch, actIndex, sourceFiles, seedFiles, processed, skipped, failed,
          totalProvisions, totalDefinitions, report, result, parserCalls, fetchCalls, phase

\* The tool registry (src/tools/registry.ts): context is whether an
\* about-context was passed to registerTools, definitionsTable whether the
\* database has a definitions table, builtAt the built_at row of db_metadata,
\* allTools the list registerTools built, request and response the latest
\* request handled and what was returned for it.
VARIABLES context, definitionsTable, builtAt, allTools, request, response

registryVars == <<context, definitionsTable, builtAt, allTools, request, response>>

parserVars == <<html, act, pc, out, firstIn, firstOut, seenOther>>

ingestVars ==
  <<acts, skipFetch, actIndex, sourceFiles, seedFiles, processed, skipped, failed,
    totalProvisions, totalDefinitions, report, result, parserCalls, fetchCalls, phase>>

fetcherVars == <<elapsed, sincePrevious, gap, calls>>

vars == <<parserVars, fetcherVars, ingestVars, registryVars>>

\* ------------------------------------------------------------------ bounds

MaxElems == 5

MaxPageElems == 5

MaxRepeatElems == 3

\* Calls of fetchWithRateLimit in one run.
MaxCalls == 2

\* Entries in the list of acts of one ingestion run.
MaxActs == 2

\* Pieces of a citation passed to format_citation.
MaxCitationTokens == 4

MaxDuplicateElems == 6

\* ------------------------------------------------------------ text helpers

Min(a, b) == IF a < b THEN a ELSE b

Digits == {"0", "1", "2", "3", "4", "5", "6", "7", "8", "9"}

IsSpace(c) == c = " "

UpperToLower ==
  [c \in {"A", "B", "C", "D", "E", "F", "G", "H", "I", "J", "K", "L", "M",
          "N", "O", "P", "Q", "R", "S", "T", "U", "V", "W", "X", "Y", "Z"} |->
     CASE c = "A" -> "a" [] c = "B" -> "b" [] c = "C" -> "c" [] c = "D" -> "d"
       [] c = "E" -> "e" [] c = "F" -> "f" [] c = "G" -> "g" [] c = "H" -> "h"
       [] c = "I" -> "i" [] c = "J" -> "j" [] c = "K" -> "k" [] c = "L" -> "l"
       [] c = "M" -> "m" [] c = "N" -> "n" [] c = "O" -> "o" [] c = "P" -> "p"
       [] c = "Q" -> "q" [] c = "R" -> "r" [] c = "S" -> "s" [] c = "T" -> "t"
       [] c = "U" -> "u" [] c = "V" -> "v" [] c = "W" -> "w" [] c = "X" -> "x"
       [] c = "Y" -> "y" [] c = "Z" -> "z"]

\* String.prototype.toLowerCase on a sequence of characters.
toLowerCase(s) ==
  [i \in 1..Len(s) |-> IF s[i] \in DOMAIN UpperToLower THEN UpperToLower[s[i]] ELSE s[i]]

\* .replace(/\s+/g, '') : every whitespace character is removed.
RemoveSpaces(s) == SelectSeq(s, LAMBDA c : ~IsSpace(c))

\* .replace(/\s+/g, ' ').trim() on payload text: runs of whitespace collapse
\* to one space, leading and trailing whitespace goes.
RECURSIVE Collapse(_, _)
Collapse(s, prevSpace) ==
  IF s = <<>> THEN <<>>
  ELSE IF IsSpace(Head(s))
       THEN (IF prevSpace THEN <<>> ELSE <<" ">>) \o Collapse(Tail(s), TRUE)
       ELSE <<Head(s)>> \o Collapse(Tail(s), FALSE)

TrimEnd(s) == IF s # <<>> /\ IsSpace(s[Len(s)]) THEN SubSeq(s, 1, Len(s) - 1) ELSE s

stripText(s) == TrimEnd(Collapse(s, TRUE))

\* String.prototype.substring(0, k) on a sequence of characters.
SubstringChars(s, k) == SubSeq(s, 1, Min(k, Len(s)))

IsPrefix(p, s) == Len(p) <= Len(s) /\ SubSeq(s, 1, Len(p)) = p

\* Length of the longest run of digits of s starting at index i.
RECURSIVE DigitRun(_, _)
DigitRun(s, i) ==
  IF i <= Len(s) /\ s[i] \in Digits THEN 1 + DigitRun(s, i + 1) ELSE 0

\* ---------------------------------------------------------------- elements

\* <p class="Subsection">{n characters}</p>
Txt(n) == [k |-> "text", s |-> <<>>, t |-> <<>>, n |-> n, w |-> 22 + n + 4, at |-> 0]

\* <p>{s}</p> with s a literal failure marker: "Page not Found" or "Error 404".
Marker(s) == [k |-> "marker", s |-> s, t |-> <<>>, n |-> 0, w |-> 3 + Len(s) + 4, at |-> 0]

\* <a class="sectionLabel" id="s-{num}">{vis}</a> ; id= starts 24 characters in.
Anchor(num, vis) ==
  [k |-> "anchor", s |-> num, t |-> vis, n |-> 0,
   w |-> 24 + 6 + Len(num) + 2 + Len(vis) + 4, at |-> 24]

\* <h2 class="Part">{label}</h2>
Heading(label) ==
  [k |-> "head", s |-> label, t |-> <<>>, n |-> 0, w |-> 17 + Len(label) + 5, at |-> 0]

\* <p class="MarginalNote">{title}</p> ; class= starts 3 characters in.
MNote(title) ==
  [k |-> "mn", s |-> title, t |-> <<>>, n |-> 0, w |-> 24 + Len(title) + 4, at |-> 3]

\* <div class="HistoricalNote">{n characters}</div>
Hist(n) == [k |-> "hist", s |-> <<>>, t |-> <<>>, n |-> n, w |-> 28 + n + 6, at |-> 0]

\* <p class="Definition"><dfn>{term}</dfn> {n characters}</p>
\* <ul class="HistoricalNote">{n characters}</ul> : the list form of the note.
HistList(n) == [k |-> "histul", s |-> <<>>, t |-> <<>>, n |-> n, w |-> 27 + n + 5, at |-> 0]

Defn(term, n) ==
  [k |-> "def", s |-> term, t |-> <<>>, n |-> n, w |-> 22 + 5 + Len(term) + 6 + 1 + n + 4,
   at |-> 0]

\* <p class="Definition"><dfn>{term}</dfn>, a line break, {n characters}</p> :
\* a block that does not stand on one line.
DefnBroken(term, n) ==
  [k |-> "defbroken", s |-> term, t |-> <<>>, n |-> n,
   w |-> 22 + 5 + Len(term) + 6 + 1 + n + 4, at |-> 0]

\* <p class="Definition">{n characters}</p> : a block without a defined term.
DefnPlain(n) ==
  [k |-> "defplain", s |-> <<>>, t |-> <<>>, n |-> n, w |-> 22 + n + 4, at |-> 0]

\* Blocks cut off by the end of the page.
\* <a class="sectionLabel" id="s-{num} : an anchor cut before its closing quote.
CutAnchor(num) ==
  [k |-> "cutanchor", s |-> num, t |-> <<>>, n |-> 0, w |-> 24 + 6 + Len(num), at |-> 0]

\* <p class="Definition"><dfn>{term}</dfn> {n characters} : no closing </p>.
CutDefn(term, n) ==
  [k |-> "cutdef", s |-> term, t |-> <<>>, n |-> n, w |-> 22 + 5 + Len(term) + 6 + 1 + n,
   at |-> 0]

\* <p class="Subsection">{n characters} : no closing </p>.
CutText(n) == [k |-> "cuttext", s |-> <<>>, t |-> <<>>, n |-> n, w |-> 22 + n, at |-> 0]

CutKinds == {"cutanchor", "cutdef", "cuttext"}

\* <div class="Schedule"><span class="scheduleLabel">{label}</span>
\* <span class="scheduleTitleText">{title}</span> ; either span is absent when
\* its text is empty.
SchedOpen(label, title) ==
  [k |-> "sched", s |-> label, t |-> title, n |-> 0,
   w |-> 22 + (IF label = <<>> THEN 0 ELSE 28 + Len(label) + 7)
            + (IF title = <<>> THEN 0 ELSE 32 + Len(title) + 7),
   at |-> 0]

\* <p class="SchedHeadL1">{title}</p>
SchedHead(title) ==
  [k |-> "shead", s |-> title, t |-> <<>>, n |-> 0, w |-> 23 + Len(title) + 4, at |-> 0]

DivClose == [k |-> "divclose", s |-> <<>>, t |-> <<>>, n |-> 0, w |-> 6, at |-> 0]

SectionOpen == [k |-> "section", s |-> <<>>, t |-> <<>>, n |-> 0, w |-> 9, at |-> 0]

FooterOpen == [k |-> "footer", s |-> <<>>, t |-> <<>>, n |-> 0, w |-> 8, at |-> 0]

\* <title>{s}</title>
TitleTag(s) == [k |-> "title", s |-> s, t |-> <<>>, n |-> 0, w |-> 7 + Len(s) + 8, at |-> 0]

\* <p>Act current to {date}</p>
CurrentTo(date) ==
  [k |-> "current", s |-> date, t |-> <<>>, n |-> 0, w |-> 3 + 15 + Len(date) + 4, at |-> 0]

\* Character offset at which element i of page h starts.
RECURSIVE Start(_, _)
Start(h, i) == IF i <= 1 THEN 0 ELSE Start(h, i - 1) + h[i - 1].w

\* Offset of the regular-expression match (m.index) on element i.
MatchPos(h, i) == Start(h, i) + h[i].at

\* ------------------------------------------------------------- stripHtml
(***************************************************************************)
(* A fragment of the page is a sequence of items [i, mode]: element i      *)
(* whole ("full"), a section anchor from its id= attribute on ("fromId"),  *)
(* or a section anchor up to its id= attribute ("lead"): substring() at an *)
(* anchor offset cuts the <a ...> tag in two.  stripHtml yields the words  *)
(* of the fragment as pieces [src, part, len, str]; the text is the pieces *)
(* joined by single spaces.                                                *)
(***************************************************************************)

Piece(i, part, s) == [src |-> i, part |-> part, len |-> Len(s), str |-> s]

Bulk(i, part, n) == [src |-> i, part |-> part, len |-> n, str |-> <<>>]

Opt(i, part, s) == IF stripText(s) = <<>> THEN <<>> ELSE <<Piece(i, part, stripText(s))>>

OptBulk(i, part, n) == IF n = 0 THEN <<>> ELSE <<Bulk(i, part, n)>>

ActCurrentTo == <<"A", "c", "t", " ", "c", "u", "r", "r", "e", "n", "t", " ", "t", "o">>

ItemPieces(h, it) ==
  LET e == h[it.i] i == it.i IN
  CASE it.mode = "fromId" ->
         \* id="s-N">N</a> : no '<' opens the tag rest, so it stays in the text
         <<Bulk(i, "residue", 6 + Len(e.s) + 2)>> \o Opt(i, "num", e.t)
    [] it.mode = "lead" ->
         \* <a class="sectionLabel" : no '>' closes it, so it stays in the text
         <<Bulk(i, "partial", e.at - 1)>>
    [] OTHER ->
         CASE e.k = "text" -> OptBulk(i, "text", e.n)
           [] e.k = "marker" -> Opt(i, "text", e.s)
           [] e.k = "anchor" -> Opt(i, "num", e.t)
           [] e.k = "head" -> Opt(i, "label", e.s)
           [] e.k = "mn" -> Opt(i, "title", e.s)
           [] e.k = "hist" -> OptBulk(i, "text", e.n)
           [] e.k = "histul" -> OptBulk(i, "text", e.n)
           [] e.k = "def" -> Opt(i, "term", e.s) \o OptBulk(i, "text", e.n)
           [] e.k = "defbroken" -> Opt(i, "term", e.s) \o OptBulk(i, "text", e.n)
           [] e.k = "defplain" -> OptBulk(i, "text", e.n)
           \* the cut tag has no '>' : it stays in the text, up to the page end
           [] e.k = "cutanchor" -> <<Bulk(i, "partial", 24 + 6 + Len(e.s))>>
           [] e.k = "cutdef" -> Opt(i, "term", e.s) \o OptBulk(i, "text", e.n)
           [] e.k = "cuttext" -> OptBulk(i, "text", e.n)
           [] e.k = "sched" -> Opt(i, "label", e.s) \o Opt(i, "title", e.t)
           [] e.k = "shead" -> Opt(i, "title", e.s)
           [] e.k = "title" -> Opt(i, "text", e.s)
           [] e.k = "current" -> <<Piece(i, "text", ActCurrentTo)>> \o Opt(i, "date", e.s)
           [] OTHER -> <<>>

RECURSIVE stripHtml(_, _)
stripHtml(h, frag) ==
  IF frag = <<>> THEN <<>> ELSE ItemPieces(h, Head(frag)) \o stripHtml(h, Tail(frag))

RECURSIVE SumLen(_)
SumLen(ps) == IF ps = <<>> THEN 0 ELSE Head(ps).len + SumLen(Tail(ps))

\* text.length of the pieces joined by single spaces.
TextLen(ps) == IF ps = <<>> THEN 0 ELSE SumLen(ps) + Len(ps) - 1

\* text.substring(0, k) on pieces: whole pieces while they fit, then a cut one.
RECURSIVE Substring(_, _)
Substring(ps, k) ==
  IF ps = <<>> \/ k <= 0 THEN <<>>
  ELSE LET p == Head(ps) IN
       IF p.len >= k
       THEN <<[p EXCEPT !.len = k, !.str = SubstringChars(p.str, k)]>>
       ELSE IF Tail(ps) = <<>> THEN <<p>>
            ELSE IF p.len + 1 = k
                 THEN <<p, [Head(Tail(ps)) EXCEPT !.len = 0, !.str = <<>>]>>
                 ELSE <<p>> \o Substring(Tail(ps), k - p.len - 1)

Full(lo, hi) == [j \in 1..(IF hi >= lo THEN hi - lo + 1 ELSE 0) |-> [i |-> lo + j - 1, mode |-> "full"]]

Indices(h, kinds) == {i \in 1..Len(h) : h[i].k \in kinds}

RECURSIVE SortedSeq(_)
SortedSeq(S) ==
  IF S = {} THEN <<>>
  ELSE LET m == CHOOSE x \in S : \A y \in S : x <= y IN <<m>> \o SortedSeq(S \ {m})

\* ------------------------------------------------------- program constants

MarginalNoteWindow == 2000

MinTextLen == 10

MaxContentLen == 8000

SlugLen == 20

\* ------------------------------------------------------------ numerals
(***************************************************************************)
(* /^\d+(?:\.\d+)?\s/ on the characters s: the length of the numeral the   *)
(* expression matches, or 0 when it does not match.  `more` says that      *)
(* whitespace follows the end of s (another word follows it in the text).  *)
(* Backtracking into a shorter run of digits never helps: the next         *)
(* character is then a digit, which is neither '.' nor whitespace.         *)
(***************************************************************************)
SpaceAt(s, i, more) == IF i <= Len(s) THEN IsSpace(s[i]) ELSE more

NumeralLen(s, more) ==
  LET d1 == DigitRun(s, 1)
      d2 == IF d1 + 1 <= Len(s) /\ s[d1 + 1] = "." THEN DigitRun(s, d1 + 2) ELSE 0
  IN IF d1 = 0 THEN 0
     ELSE IF d2 > 0 /\ SpaceAt(s, d1 + d2 + 2, more) THEN d1 + 1 + d2
     ELSE IF SpaceAt(s, d1 + 1, more) THEN d1
     ELSE 0

\* ------------------------------------------------------- extractSections

\* anchorRe: every id="s-{num}"> of the page, in page order.
sectionAnchors(h) ==
  LET ix == SortedSeq(Indices(h, {"anchor"})) IN
  [j \in 1..Len(ix) |-> [num |-> h[ix[j]].s, pos |-> MatchPos(h, ix[j]), i |-> ix[j]]]

\* partRe: every Part / Subheading heading, with its stripped label.
partPositions(h) ==
  LET ix == SortedSeq(Indices(h, {"head"})) IN
  [j \in 1..Len(ix) |-> [label |-> stripText(h[ix[j]].s), pos |-> MatchPos(h, ix[j])]]

MarginalNotePlaceholder ==
  <<"M", "a", "r", "g", "i", "n", "a", "l", " ", "n", "o", "t", "e", ":">>

\* mnRe: every marginal note whose stripped text is neither empty nor the
\* bare placeholder.
marginalNotes(h) ==
  LET ix == SortedSeq({i \in Indices(h, {"mn"}) :
                         /\ stripText(h[i].s) # <<>>
                         /\ stripText(h[i].s) # MarginalNotePlaceholder}) IN
  [j \in 1..Len(ix) |-> [title |-> stripText(h[ix[j]].s), pos |-> MatchPos(h, ix[j])]]

\* Variant: the chapter variable outlives the call and starts from the
\* chapter of the last provision of the previous document.
LeakedChapter ==
  IF out.provisions = <<>> THEN <<>> ELSE out.provisions[Len(out.provisions)].chapter

\* let currentChapter = '' (line 129)
InitialChapter == <<>>

\* Variant: the position of the heading is not compared with the anchor's.
UpdateChapterAnywhere(parts, anchorPos, current) ==
  IF parts = <<>> THEN current ELSE parts[Len(parts)].label

\* for (const part of partPositions) if (part.pos < anchor.pos) currentChapter = part.label
RECURSIVE UpdateChapter(_, _, _)
UpdateChapter(parts, anchorPos, current) ==
  IF parts = <<>> THEN current
  ELSE UpdateChapter(Tail(parts), anchorPos,
                     IF Head(parts).pos < anchorPos THEN Head(parts).label ELSE current)

\* Variant: the window includes its bound.
RECURSIVE NearestNoteInclusive(_, _, _)
NearestNoteInclusive(notes, j, anchorPos) ==
  IF j = 0 THEN <<>>
  ELSE IF notes[j].pos < anchorPos /\ anchorPos - notes[j].pos <= MarginalNoteWindow
       THEN notes[j].title
       ELSE NearestNoteInclusive(notes, j - 1, anchorPos)

\* for (j = marginalNotes.length - 1; j >= 0; j--) : first note, from the
\* last one backwards, that precedes the anchor by less than the window.
RECURSIVE NearestNote(_, _, _)
NearestNote(notes, j, anchorPos) ==
  IF j = 0 THEN <<>>
  ELSE IF notes[j].pos < anchorPos /\ anchorPos - notes[j].pos < MarginalNoteWindow
       THEN notes[j].title
       ELSE NearestNote(notes, j - 1, anchorPos)

\* html.substring(anchor.pos, nextAnchorPos) : from the id= of anchor a to
\* the id= of the next anchor b (0: none, the page end).
SectionHtml(h, a, b) ==
  <<[i |-> a, mode |-> "fromId"]>>
    \o Full(a + 1, (IF b = 0 THEN Len(h) ELSE b - 1))
    \o (IF b = 0 THEN <<>> ELSE <<[i |-> b, mode |-> "lead"]>>)

\* .replace(/<... class="HistoricalNote">.*?<\/...>/gs, '') and the
\* MarginalNote paragraphs: whole elements of these kinds go.
RemoveNotes(h, frag) ==
  SelectSeq(frag, LAMBDA it : ~(it.mode = "full" /\ h[it.i].k \in {"hist", "histul", "mn"}))

\* Variant: nothing is cut.
KeepStructure(h, frag) == frag

\* .replace(/<h[23]...class="(?:Part|Subheading)"...[\s\S]*$/i, '') and
\* .replace(/<div class="Schedule"[\s\S]*$/i, '') : cut at the first one.
TruncateAtStructure(h, frag) ==
  LET cut == {j \in 1..Len(frag) : frag[j].mode = "full" /\ h[frag[j].i].k \in {"head", "sched"}}
  IN IF cut = {} THEN frag
     ELSE SubSeq(frag, 1, (CHOOSE j \in cut : \A x \in cut : j <= x) - 1)

CleanedHtml(h, frag) == TruncateAtStructure(h, RemoveNotes(h, frag))

\* text.replace(/^\s*id="s-[\d.]+"\s*>\s*/, '')
DropResidue(ps) == IF ps # <<>> /\ Head(ps).part = "residue" THEN Tail(ps) ELSE ps

\* text.replace(/^\s*\d+(?:\.\d+)?\s+/, `${anchor.num} `)
ReplaceLeadingNumber(ps, num) ==
  IF ps = <<>> THEN ps
  ELSE LET p == Head(ps)
           m == NumeralLen(p.str, Len(ps) > 1)
       IN IF m = 0 THEN ps
          ELSE IF m = Len(p.str)
               THEN <<[p EXCEPT !.str = num, !.len = Len(num)]>> \o Tail(ps)
               ELSE LET str == num \o SubSeq(p.str, m + 1, Len(p.str)) IN
                    <<[p EXCEPT !.str = str, !.len = Len(str)]>> \o Tail(ps)

\* Variant: the cut tag of the next anchor stays in the text.
KeepPartialTag(ps) == ps

\* text.replace(/<[^>]*$/, '').trim() : the cut tag at the end of the region.
DropPartialTag(ps) ==
  LET cut == {j \in 1..Len(ps) : ps[j].part = "partial"} IN
  IF cut = {} THEN ps
  ELSE SubSeq(ps, 1, (CHOOSE j \in cut : \A x \in cut : j <= x) - 1)

\* The text of the section at anchor a, before the length test and the cap.
SectionText(h, a, b, num) ==
  DropPartialTag(ReplaceLeadingNumber(DropResidue(stripHtml(h, CleanedHtml(h, SectionHtml(h, a, b)))), num))

\* Variant: the floor is one character too low.
TooShortBelowFloor(text) == TextLen(text) < MinTextLen - 1

\* if (text.length < 10) continue
TooShort(text) == TextLen(text) < MinTextLen

\* text.substring(0, 8000)
CapContent(text) == Substring(text, MaxContentLen)

\* A map in which a key that is set again moves behind the other keys.
MapSetMovingToEnd(m, key, val) ==
  Append(SelectSeq(m, LAMBDA e : e.key # key), [key |-> key, val |-> val])

\* Map.prototype.set: a new key is appended, an existing key keeps its place.
MapSet(m, key, val) ==
  IF \E j \in 1..Len(m) : m[j].key = key
  THEN [j \in 1..Len(m) |-> IF m[j].key = key THEN [key |-> key, val |-> val] ELSE m[j]]
  ELSE Append(m, [key |-> key, val |-> val])

RECURSIVE SectionLoop(_, _, _, _, _, _, _)
SectionLoop(h, anchors, parts, notes, j, sections, currentChapter) ==
  IF j > Len(anchors) THEN sections
  ELSE LET anchor == anchors[j]
           next == IF j + 1 <= Len(anchors) THEN anchors[j + 1].i ELSE 0
           chapter == UpdateChapter(parts, anchor.pos, currentChapter)
           title == NearestNote(notes, Len(notes), anchor.pos)
           text == SectionText(h, anchor.i, next, anchor.num)
       IN IF TooShort(text)
          THEN SectionLoop(h, anchors, parts, notes, j + 1, sections, chapter)
          ELSE SectionLoop(h, anchors, parts, notes, j + 1,
                           MapSet(sections, anchor.num,
                                  [title |-> title, content |-> CapContent(text),
                                   chapter |-> chapter]),
                           chapter)

extractSections(h) ==
  LET anchors == sectionAnchors(h) IN
  IF anchors = <<>> THEN <<>>
  ELSE SectionLoop(h, anchors, partPositions(h), marginalNotes(h), 1, <<>>, InitialChapter)

\* ----------------------------------------------------- extractDefinitions

SectionRef(num) == <<"s">> \o num

\* Variant: a definition refers to the section whose anchor precedes its
\* block, and to the fixed section only when no anchor does.
RECURSIVE DefinitionLoopEnclosing(_, _, _)
DefinitionLoopEnclosing(h, ix, sectionNum) ==
  IF ix = <<>> THEN <<>>
  ELSE LET i == Head(ix)
           term == stripText(h[i].s)
           definition == stripHtml(h, Full(i, i))
           rest == DefinitionLoopEnclosing(h, Tail(ix), sectionNum)
           before == {a \in 1..(i - 1) : h[a].k = "anchor"}
           num == IF before = {} THEN sectionNum
                  ELSE h[CHOOSE a \in before : \A x \in before : x <= a].s
       IN IF h[i].k = "def" /\ h[i].s # <<>> /\ term # <<>> /\ definition # <<>>
          THEN <<[term |-> term, definition |-> definition,
                  source_provision |-> SectionRef(num)]>> \o rest
          ELSE rest

\* while ((m = defRe.exec(html)) !== null) : one definition for each block
\* with a <dfn> term whose stripped term and text are not empty.  defRe has
\* no s flag: (.*?) stops at a line break, so a block with a line break
\* inside is no match.
RECURSIVE DefinitionLoop(_, _, _)
DefinitionLoop(h, ix, sectionNum) ==
  IF ix = <<>> THEN <<>>
  ELSE LET i == Head(ix)
           term == stripText(h[i].s)
           definition == stripHtml(h, Full(i, i))
           rest == DefinitionLoop(h, Tail(ix), sectionNum)
       IN IF h[i].k = "def" /\ h[i].s # <<>> /\ term # <<>> /\ definition # <<>>
          THEN <<[term |-> term, definition |-> definition,
                  source_provision |-> SectionRef(sectionNum)]>> \o rest
          ELSE rest

\* Variant: a Definition block may also end at the end of the page.
extractDefinitionsOpenEnded(h, sectionNum) ==
  LET closed == [i \in 1..Len(h) |-> IF h[i].k = "cutdef" THEN [h[i] EXCEPT !.k = "def"] ELSE h[i]]
  IN DefinitionLoop(closed, SortedSeq(Indices(closed, {"def", "defplain"})), sectionNum)

extractDefinitions(h, sectionNum) ==
  DefinitionLoop(h, SortedSeq(Indices(h, {"def", "defplain"})), sectionNum)

\* ------------------------------------------------------- extractSchedules

\* Variant: schedule references share the prefix of section references.
SectionLikePrefix == <<"s">>

SchedPrefix == <<"s", "c", "h", "e", "d", "-">>

MinOf(S) == CHOOSE x \in S : \A y \in S : x <= y

\* scheduleRe, one exec() from element `from` on: the first Schedule opening
\* i and the first closing div tag after it that is followed at once by a
\* Schedule opening, <section, <footer or the page end.  <<0, 0>>: no match.
\* When no such closing tag follows i, none follows a later opening either.
ScheduleMatch(h, from) ==
  LET opens == {i \in from..Len(h) : h[i].k = "sched"} IN
  IF opens = {} THEN <<0, 0>>
  ELSE LET i == MinOf(opens)
           closes == {j \in (i + 1)..Len(h) :
                        /\ h[j].k \in {"divclose", "hist"}
                        /\ (j = Len(h) \/ h[j + 1].k \in {"sched", "section", "footer"})}
       IN IF closes = {} THEN <<0, 0>> ELSE <<i, MinOf(closes)>>

\* schedMatch[1]: from behind the opening tag of i to before the closing
\* tag of j.
ScheduleHtml(i, j) ==
  <<[i |-> i, mode |-> "afterOpen"]>> \o Full(i + 1, j - 1)
    \o <<[i |-> j, mode |-> "beforeClose"]>>

\* scheduleHtml.match(/class="scheduleLabel"[^>]*>([^<]+)</) : index in the
\* fragment of the first label, 0 when there is none.
LabelItem(h, frag) ==
  LET with == {x \in 1..Len(frag) : h[frag[x].i].k = "sched" /\ h[frag[x].i].s # <<>>}
  IN IF with = {} THEN 0 ELSE MinOf(with)

\* scheduleHtml.match(/class="scheduleTitleText"[^>]*>([^<]+)/)
ScheduleTitle(h, frag) ==
  LET with == {x \in 1..Len(frag) : h[frag[x].i].k = "sched" /\ h[frag[x].i].t # <<>>}
  IN IF with = {} THEN <<>> ELSE stripText(h[frag[MinOf(with)].i].t)

\* headingRe: the SchedHeadL1 paragraphs of the fragment, as fragment indices.
headingPositions(h, frag) ==
  SortedSeq({x \in 1..Len(frag) : h[frag[x].i].k = "shead" /\ frag[x].mode = "full"})

\* Variant: the numeral is taken whatever follows it.
HeadingRefAnyFollower(title) ==
  LET d1 == DigitRun(title, 1)
      d2 == IF d1 + 1 <= Len(title) /\ title[d1 + 1] = "." THEN DigitRun(title, d1 + 2) ELSE 0
  IN IF d1 = 0 THEN SubstringChars(title, SlugLen)
     ELSE SubSeq(title, 1, d1 + (IF d2 > 0 THEN 1 + d2 ELSE 0))

\* heading.title.match(/^(\d+(?:\.\d+)?)\s/) ? refMatch[1] : title.substring(0, 20)
HeadingRef(title) ==
  LET m == NumeralLen(title, FALSE) IN
  IF m > 0 THEN SubSeq(title, 1, m) ELSE SubstringChars(title, SlugLen)

\* Variant: the label keeps its case.
LabelKeepingCase(label) == RemoveSpaces(label)

\* scheduleLabel.toLowerCase().replace(/\s+/g, '')
NormalizedLabel(label) == RemoveSpaces(toLowerCase(label))

ScheduleChapter(label, title) ==
  label \o (IF title # <<>> THEN <<" ", "-", " ">> \o title ELSE <<>>)

\* if (content.length > 10)
LongEnough(content) == TextLen(content) > MinTextLen

\* Variant: every block runs to the end of the schedule.
HeadingBlockToEnd(frag, heads, x) == SubSeq(frag, heads[x], Len(frag))

\* scheduleHtml.substring(heading.pos, nextPos) : from heading x to the next
\* heading, or to the end of the schedule for the last one.
HeadingBlock(frag, heads, x) ==
  SubSeq(frag, heads[x], (IF x + 1 <= Len(heads) THEN heads[x + 1] ELSE Len(frag) + 1) - 1)

\* One provision for each heading whose block is long enough.
RECURSIVE HeadingLoop(_, _, _, _, _, _)
HeadingLoop(h, frag, heads, x, label, title) ==
  IF x > Len(heads) THEN <<>>
  ELSE LET headTitle == stripText(h[frag[heads[x]].i].s)
           content == stripHtml(h, HeadingBlock(frag, heads, x))
           ref == HeadingRef(headTitle)
           rest == HeadingLoop(h, frag, heads, x + 1, label, title)
       IN IF LongEnough(content)
          THEN <<[provision_ref |-> SchedPrefix \o NormalizedLabel(label) \o <<"-">> \o ref,
                  chapter |-> ScheduleChapter(label, title),
                  section |-> ref,
                  title |-> headTitle,
                  content |-> CapContent(content)]>> \o rest
          ELSE rest

\* scheduleHtml.replace(/<div class="HistoricalNote">.*?<\/div>/gs, '') : the
\* closed HistoricalNote blocks go.
WithoutHistory(h, frag) ==
  SelectSeq(frag, LAMBDA it : ~(it.mode = "full" /\ h[it.i].k = "hist"))

\* No sub-heading: the whole schedule is one provision.
WholeSchedule(h, frag, label, title) ==
  LET content == stripHtml(h, WithoutHistory(h, frag)) IN
  IF LongEnough(content)
  THEN <<[provision_ref |-> SchedPrefix \o NormalizedLabel(label),
          chapter |-> ScheduleChapter(label, title),
          section |-> label,
          title |-> IF title # <<>> THEN title ELSE label,
          content |-> CapContent(content)]>>
  ELSE <<>>

\* The provisions of the schedule matched from opening i to closing j.
ScheduleProvisions(h, i, j) ==
  LET frag == ScheduleHtml(i, j)
      lab == LabelItem(h, frag)
  IN IF lab = 0 THEN <<>>
     ELSE LET label == stripText(h[frag[lab].i].s)
              title == ScheduleTitle(h, frag)
              heads == headingPositions(h, frag)
          IN IF heads # <<>>
             THEN HeadingLoop(h, frag, heads, 1, label, title)
             ELSE WholeSchedule(h, frag, label, title)

\* while ((schedMatch = scheduleRe.exec(html)) !== null) : the successive
\* matches <<i, j>>, each search resuming behind the closing tag of the last.
RECURSIVE ScheduleMatches(_, _)
ScheduleMatches(h, from) ==
  LET m == ScheduleMatch(h, from) IN
  IF m[1] = 0 THEN <<>> ELSE <<m>> \o ScheduleMatches(h, m[2] + 1)

RECURSIVE ScheduleLoop(_, _)
ScheduleLoop(h, ms) ==
  IF ms = <<>> THEN <<>>
  ELSE ScheduleProvisions(h, Head(ms)[1], Head(ms)[2]) \o ScheduleLoop(h, Tail(ms))

extractSchedules(h) ==
  [provisions |-> ScheduleLoop(h, ScheduleMatches(h, 1)), definitions |-> <<>>]

\* ------------------------------------------------------ parseFullTextHtml

\* A run of a built string: a catalog string (lit) or page characters (chars).
Lit(a) == [lit |-> a, chars |-> <<>>]

Chars(c) == [lit |-> "", chars |-> c]

\* html.match(/<title>([^<]+)<\/title>/) : `${titleText} (${act.shortName})`,
\* else act.title.
extractDescription(h, a) ==
  LET with == {i \in 1..Len(h) : h[i].k = "title" /\ h[i].s # <<>>} IN
  IF with # {}
  THEN <<Chars(stripText(h[MinOf(with)].s)), Lit(" ("), Lit(a.shortName), Lit(")")>>
  ELSE <<Lit(a.title)>>

\* html.match(/Act current to\s*(\d{4}-\d{2}-\d{2})/) : the date, <<>> for null.
IsIsoDate(d) ==
  /\ Len(d) = 10
  /\ \A x \in {1, 2, 3, 4, 6, 7, 9, 10} : d[x] \in Digits
  /\ d[5] = "-" /\ d[8] = "-"

extractCurrentToDate(h) ==
  LET with == {i \in 1..Len(h) : h[i].k = "current" /\ Len(h[i].s) >= 10
                                  /\ IsIsoDate(SubSeq(h[i].s, 1, 10))} IN
  IF with = {} THEN <<>> ELSE SubSeq(h[MinOf(with)].s, 1, 10)

\* html.includes('Page not Found') || html.includes('Error 404')
PageNotFound == <<"P", "a", "g", "e", " ", "n", "o", "t", " ", "F", "o", "u", "n", "d">>

Error404 == <<"E", "r", "r", "o", "r", " ", "4", "0", "4">>

\* Variant: the second marker is not looked for.
IsErrorPageFirstMarkerOnly(h) == \E i \in 1..Len(h) : h[i].k = "marker" /\ h[i].s = PageNotFound

IsErrorPage(h) == \E i \in 1..Len(h) : h[i].k = "marker" /\ h[i].s \in {PageNotFound, Error404}

\* chapter: data.chapter || undefined -- the empty sequence stands for both
\* the empty string and the absent chapter.
\* for (const [sectionNum, data] of sectionMap) provisions.push({...})
SectionProvisions(sectionMap) ==
  [j \in 1..Len(sectionMap) |->
     [provision_ref |-> SectionRef(sectionMap[j].key),
      chapter |-> sectionMap[j].val.chapter,
      section |-> sectionMap[j].key,
      title |-> sectionMap[j].val.title,
      content |-> sectionMap[j].val.content]]

DefinitionsSection == <<"2">>

ParsedAct(a, description, provisions, definitions) ==
  [id |-> a.id, type |-> "statute", title |-> a.title, title_en |-> a.title,
   short_name |-> a.shortName, status |-> a.status, issued_date |-> a.issuedDate,
   in_force_date |-> a.inForceDate, url |-> a.url, description |-> description,
   provisions |-> provisions, definitions |-> definitions]

\* Variant: the schedule provisions are pushed before the section provisions.
parseSchedulesFirst(h, a) ==
  IF IsErrorPage(h)
  THEN ParsedAct(a, <<Lit(a.title)>>, <<>>, <<>>)
  ELSE LET description == extractDescription(h, a)
           currentTo == extractCurrentToDate(h)
           scheduleData == extractSchedules(h)
       IN ParsedAct(a,
                    IF currentTo # <<>>
                    THEN description \o <<Lit(". Current to "), Chars(currentTo), Lit(".")>>
                    ELSE description,
                    scheduleData.provisions \o SectionProvisions(extractSections(h)),
                    extractDefinitions(h, DefinitionsSection) \o scheduleData.definitions)

parseFullTextHtml(h, a) ==
  IF IsErrorPage(h)
  THEN ParsedAct(a, <<Lit(a.title)>>, <<>>, <<>>)
  ELSE LET description == extractDescription(h, a)
           currentTo == extractCurrentToDate(h)
           scheduleData == extractSchedules(h)
       IN ParsedAct(a,
                    IF currentTo # <<>>
                    THEN description \o <<Lit(". Current to "), Chars(currentTo), Lit(".")>>
                    ELSE description,
                    SectionProvisions(extractSections(h)) \o scheduleData.provisions,
                    extractDefinitions(h, DefinitionsSection) \o scheduleData.definitions)

\* ---------------------------------------------------------- catalog entries

KEY_CANADIAN_ACTS ==
  { [id |-> "pipeda", actPath |-> "P-8.6",
     title |-> "Personal Information Protection and Electronic Documents Act",
     titleFr |-> "Loi sur la protection des renseignements personnels et les documents electroniques",
     shortName |-> "PIPEDA", status |-> "in_force", issuedDate |-> "2000-04-13",
     inForceDate |-> "2001-01-01", url |-> "https://laws-lois.justice.gc.ca/eng/acts/P-8.6/"],
    [id |-> "privacy-act", actPath |-> "P-21", title |-> "Privacy Act",
     titleFr |-> "Loi sur la protection des renseignements personnels",
     shortName |-> "Privacy Act", status |-> "in_force", issuedDate |-> "1982-07-07",
     inForceDate |-> "1983-07-01", url |-> "https://laws-lois.justice.gc.ca/eng/acts/P-21/"] }

\* ------------------------------------------------------------ sample text

Str1 == <<"1">>

Str2 == <<"2">>

Str7 == <<"7">>

PartOne == <<"P", "A", "R", "T", " ", "1">>

PartTwo == <<"P", "A", "R", "T", " ", "2">>

ShortTitle == <<"S", "h", "o", "r", "t", " ", "t", "i", "t", "l", "e">>

Definitions == <<"D", "e", "f", "i", "n", "i", "t", "i", "o", "n", "s">>

Schedule1 == <<"S", "C", "H", "E", "D", "U", "L", "E", " ", "1">>

ScheduleBare == <<"S", "C", "H", "E", "D", "U", "L", "E">>

Transitional ==
  <<"T", "r", "a", "n", "s", "i", "t", "i", "o", "n", "a", "l", " ",
    "P", "r", "o", "v", "i", "s", "i", "o", "n", "s">>

PrincipleOne ==
  <<"1", " ", "P", "r", "i", "n", "c", "i", "p", "l", "e", " ", "o", "n", "e">>

PrincipleTwo ==
  <<"2", " ", "P", "r", "i", "n", "c", "i", "p", "l", "e", " ", "t", "w", "o">>

DottedHeading ==
  <<"1", ".", " ", "A", "c", "c", "o", "u", "n", "t", "a", "b", "i", "l", "i", "t", "y">>

DecimalHeading == <<"4", ".", "1", " ", "C", "o", "n", "s", "e", "n", "t">>

LongHeading ==
  <<"A", "c", "c", "o", "u", "n", "t", "a", "b", "i", "l", "i", "t", "y", " ", "o", "f", " ",
    "o", "r", "g", "a", "n", "i", "z", "a", "t", "i", "o", "n", "s">>

Blank == <<" ">>

Organization == <<"o", "r", "g", "a", "n", "i", "z", "a", "t", "i", "o", "n">>

\* --------------------------------------------------------- format_citation

\* Characters \s matches and String.prototype.trim removes.
IsWhitespace(c) == c \in {" ", "\t", "\n"}

\* Characters . does not match.
IsLineTerminator(c) == c = "\n"

RECURSIVE trimStart(_)
trimStart(s) == IF s # <<>> /\ IsWhitespace(Head(s)) THEN trimStart(Tail(s)) ELSE s

RECURSIVE trimEnd(_)
trimEnd(s) ==
  IF s # <<>> /\ IsWhitespace(s[Len(s)]) THEN trimEnd(SubSeq(s, 1, Len(s) - 1)) ELSE s

\* String.prototype.trim
trim(s) == trimEnd(trimStart(s))

\* Length of the run of whitespace of s starting at index i.
RECURSIVE SpaceRun(_, _)
SpaceRun(s, i) ==
  IF i <= Len(s) /\ IsWhitespace(s[i]) THEN 1 + SpaceRun(s, i + 1) ELSE 0

SectionWord == <<"s", "e", "c", "t", "i", "o", "n">>

SDot == <<"s", ".">>

\* (?:Section|s\.) with the i flag at index i: the length matched, else 0.
KeywordLen(s, i) ==
  LET rest == toLowerCase(SubSeq(s, i, Len(s)))
  IN  IF IsPrefix(SectionWord, rest) THEN Len(SectionWord)
      ELSE IF IsPrefix(SDot, rest) THEN Len(SDot) ELSE 0

\* (?:\.\d+)? at index p: the length matched.
FractionLen(s, p) ==
  IF p <= Len(s) /\ s[p] = "." /\ DigitRun(s, p + 1) > 0 THEN 1 + DigitRun(s, p + 1) ELSE 0

\* (?:\(\d+\))? at index q, g being the digits behind an opening parenthesis.
ClosedLen(s, q, g) == IF g > 0 /\ q + 1 + g <= Len(s) /\ s[q + 1 + g] = ")" THEN g + 2 ELSE 0

ParenthesisLen(s, q) ==
  IF q <= Len(s) /\ s[q] = "(" THEN ClosedLen(s, q, DigitRun(s, q + 1)) ELSE 0

NumeralFrom(s, i, d, f) == d + f + ParenthesisLen(s, i + d + f)

NumeralOf(s, i, d) == IF d = 0 THEN 0 ELSE NumeralFrom(s, i, d, FractionLen(s, i + d))

\* \d+(?:\.\d+)?(?:\(\d+\))? at index i: the length of the greedy match,
\* else 0.  In both patterns the numeral is followed by \s or by the end of
\* the input, which no shorter match of the numeral can reach.
CitedNumeralLen(s, i) == NumeralOf(s, i, DigitRun(s, i))

OneLine(s) == \A i \in 1..Len(s) : ~IsLineTerminator(s[i])

NoMatch == [matched |-> FALSE, section |-> <<>>, law |-> <<>>]

Matched(section, law) == [matched |-> TRUE, section |-> section, law |-> law]

\* \s+(.+)$ behind a numeral of length n at index a, w being the whitespace.
FirstLaw(t, a, n, w) ==
  IF n > 0 /\ w > 0 /\ a + n + w <= Len(t) /\ OneLine(SubSeq(t, a + n + w, Len(t)))
  THEN Matched(SubSeq(t, a, a + n - 1), SubSeq(t, a + n + w, Len(t)))
  ELSE NoMatch

FirstNumeral(t, a, n) == FirstLaw(t, a, n, SpaceRun(t, a + n))

FirstKeyword(t, k) ==
  IF k = 0 THEN NoMatch
  ELSE FirstNumeral(t, 1 + k + SpaceRun(t, 1 + k),
                    CitedNumeralLen(t, 1 + k + SpaceRun(t, 1 + k)))

\* trimmed.match(/^(?:Section|s\.)\s*(\d+(?:\.\d+)?(?:\(\d+\))?)\s+(.+)$/i)
sectionFirst(trimmed) == FirstKeyword(trimmed, KeywordLen(trimmed, 1))

\* (\d+(?:\.\d+)?(?:\(\d+\))?)$ at index a: a, else 0.
NumeralToEnd(s, a) ==
  IF CitedNumeralLen(s, a) > 0 /\ a + CitedNumeralLen(s, a) = Len(s) + 1 THEN a ELSE 0

\* (?:Section|s\.)\s* at index b, k being the length of the keyword.
KeywordToEnd(s, b, k) == IF k = 0 THEN 0 ELSE NumeralToEnd(s, b + k + SpaceRun(s, b + k))

\* \s*(?:Section|s\.) ... from index c.
SpacesToEnd(s, b) == KeywordToEnd(s, b, KeywordLen(s, b))

\* [,;]?\s*(?:Section|s\.)\s*(\d+(?:\.\d+)?(?:\(\d+\))?)$ from index p: the
\* index at which the numeral starts, else 0.
TailStart(s, p) ==
  IF p <= Len(s) /\ s[p] \in {",", ";"}
  THEN SpacesToEnd(s, p + 1 + SpaceRun(s, p + 1))
  ELSE SpacesToEnd(s, p + SpaceRun(s, p))

\* The prefixes (.+?) can take so that the rest matches.
LastFits(t) == {j \in 1..Len(t) : OneLine(SubSeq(t, 1, j)) /\ TailStart(t, j + 1) > 0}

LastAt(t, j) == Matched(SubSeq(t, TailStart(t, j + 1), Len(t)), SubSeq(t, 1, j))

Least(S) == CHOOSE x \in S : \A y \in S : x <= y

\* trimmed.match(/^(.+?)[,;]?\s*(?:Section|s\.)\s*(\d+(?:\.\d+)?(?:\(\d+\))?)$/i)
\* : the lazy group takes the shortest prefix after which the rest matches.
sectionLast(trimmed) ==
  IF LastFits(trimmed) = {} THEN NoMatch ELSE LastAt(trimmed, Least(LastFits(trimmed)))

\* law.split('(')[0]
RECURSIVE BeforeParenthesis(_)
BeforeParenthesis(s) ==
  IF s = <<>> \/ Head(s) = "(" THEN <<>> ELSE <<Head(s)>> \o BeforeParenthesis(Tail(s))

SectionSpace == <<"S", "e", "c", "t", "i", "o", "n", " ">>

SDotSpace == <<"s", ".", " ">>

\* An argument that was not passed.
Undefined == "undefined"

\* Variant: the short format keeps the whole law text.
FormatSectionWholeLaw(format, section, law) ==
  CASE format = "short" -> SDotSpace \o section \o <<" ">> \o law
    [] format = "pinpoint" -> SDotSpace \o section
    [] OTHER -> SectionSpace \o section \o <<" ">> \o law

\* The switch over format, for a section that was found.
FormatSection(format, section, law) ==
  CASE format = "short" -> SDotSpace \o section \o <<" ">> \o trim(BeforeParenthesis(law))
    [] format = "pinpoint" -> SDotSpace \o section
    [] OTHER -> SectionSpace \o section \o <<" ">> \o law

\* section = sectionFirst?.[1] ?? sectionLast?.[2], law likewise, and
\* formatted = section ? ... : law.
Formatted(format, trimmed, first, last) ==
  IF first.matched THEN FormatSection(format, first.section, first.law)
  ELSE IF last.matched THEN FormatSection(format, last.section, last.law)
  ELSE trimmed

FormatTrimmed(format, trimmed) ==
  Formatted(format, trimmed, sectionFirst(trimmed), sectionLast(trimmed))

\* input.format ?? 'full'
FormatOf(input) == IF input.format = Undefined THEN "full" ELSE input.format

\* formatCitationTool(input) for an input with a citation.
formatCitationTool(input) ==
  [original |-> input.citation,
   formatted |-> FormatTrimmed(FormatOf(input), trim(input.citation)),
   format |-> FormatOf(input)]

\* ------------------------------------------------------- the tool registry

\* The names of TOOLS, in the order of the source.
TOOLS ==
  <<"search_legislation", "get_provision", "validate_citation", "build_legal_stance",
    "format_citation", "check_currency", "get_eu_basis", "get_canadian_implementations",
    "search_eu_implementations", "get_provision_eu_basis", "validate_eu_compliance">>

LIST_SOURCES_TOOL == "list_sources"

ABOUT_TOOL == "about"

\* The about tool is listed whether or not a context was supplied.
buildToolsAlwaysAbout(hasDefinitions, hasContext) ==
  Append(Append(TOOLS, LIST_SOURCES_TOOL), ABOUT_TOOL)

\* buildTools(db, context): the probe of the definitions table adds nothing.
buildTools(hasDefinitions, hasContext) ==
  LET tools == Append(TOOLS, LIST_SOURCES_TOOL)
  IN  IF hasContext THEN Append(tools, ABOUT_TOOL) ELSE tools

\* generateResponseMetadata(db): freshness is the built_at row, if any.
generateResponseMetadata(built) ==
  [data_source |-> "Justice Laws Website", jurisdiction |-> "CA",
   disclaimer |-> "Open Government Licence - Canada", freshness |-> built]

\* ToolResponse<T>: what the handlers outside this file return by the
\* convention of the project, results standing for the rows found.
ToolResponse(results, built) ==
  [results |-> results, _metadata |-> generateResponseMetadata(built)]

NoArguments == [hasCitation |-> FALSE, citation |-> <<>>, format |-> Undefined]

CitationArguments(citation, format) ==
  [hasCitation |-> TRUE, citation |-> citation, format |-> format]

NoRequest == [method |-> "none", name |-> "", arguments |-> NoArguments]

NoResponse == [kind |-> "none"]

NoValue == [none |-> TRUE]

\* An error text returned without the error flag.
ErrorResultUnflagged(text) ==
  [kind |-> "call", isError |-> FALSE, text |-> text, value |-> NoValue]

\* { content: [{ type: 'text', text }], isError: true }
ErrorResult(text) == [kind |-> "call", isError |-> TRUE, text |-> text, value |-> NoValue]

\* { content: [{ type: 'text', text: JSON.stringify(result, null, 2) }] }
TextResult(value) == [kind |-> "call", isError |-> FALSE, text |-> <<"JSON">>, value |-> value]

\* What a handler does: it returns a value or throws an error with a message.
Returned(value) == [threw |-> FALSE, value |-> value, message |-> ""]

Threw(message) == [threw |-> TRUE, value |-> NoValue, message |-> message]

\* The handlers that take the database: searchLegislation ... listSources,
\* getAbout.  failing: whether the handler throws.
DatabaseTool(name, failing) ==
  IF failing THEN Threw("SQLITE_ERROR") ELSE Returned(ToolResponse(name, builtAt))

\* formatCitationTool(args as FormatCitationInput): input.citation.trim()
\* throws a TypeError when no citation was passed.
FormatCitationHandler(args) ==
  IF args.hasCitation THEN Returned(formatCitationTool(args))
  ELSE Threw("Cannot read properties of undefined (reading 'trim')")

DatabaseTools == {TOOLS[i] : i \in 1..Len(TOOLS)} \ {"format_citation"}

\* The tools/call handler: the switch over name inside the try block.
CallToolResult(name, args, failing) ==
  LET outcome ==
        CASE name = "format_citation" -> FormatCitationHandler(args)
          [] name \in DatabaseTools -> DatabaseTool(name, failing)
          [] name = "list_sources" -> DatabaseTool(name, failing)
          [] name = "about" /\ context -> DatabaseTool(name, failing)
          [] OTHER -> Returned(NoValue)
  IN  CASE name = "about" /\ ~context -> ErrorResult(<<"About tool not configured.">>)
        [] name \notin DatabaseTools \cup {"format_citation", "list_sources", "about"} ->
             ErrorResult(<<"Error: Unknown tool \"", name, "\".">>)
        [] outcome.threw -> ErrorResult(<<"Error: ", outcome.message>>)
        [] OTHER -> TextResult(outcome.value)

RegistryIdle ==
  /\ context = FALSE
  /\ definitionsTable = FALSE
  /\ builtAt = Undefined
  /\ allTools = <<>>
  /\ request = NoRequest
  /\ response = NoResponse

\* ------------------------------------------------------------ the fetcher

MIN_DELAY_MS == 500

\* maxRetries = 3 is the default of fetchWithRateLimit.
DefaultMaxRetries == 3

\* A backoff that starts at one second.
BackoffFromOneSecond(attempt) == (2 ^ attempt) * 1000

\* 2^(attempt + 1) * 1000 milliseconds.
Backoff(attempt) == (2 ^ (attempt + 1)) * 1000

\* response.status === 429 || response.status >= 500
Retryable(status) == status = 429 \/ status >= 500

Calls == 1..MaxCalls

\* A call not yet made.  pc is the call's position, attempt the loop
\* counter, timer the milliseconds left until the pending timer or response,
\* arriving the status of the response under way (ok: whether fetch will
\* resolve rather than reject), sent the number of
\* requests started, status the status of the latest response (0: none),
\* before the status of the response that preceded the latest request,
\* sinceResponse the time since the latest response while the call backs
\* off, waited the value of sinceResponse when the latest request started.
IdleCall ==
  [pc |-> "idle", maxRetries |-> 0, attempt |-> 0, timer |-> 0, arriving |-> 0, ok |-> TRUE,
   sent |-> 0,
   status |-> 0, before |-> 0, sinceResponse |-> 0, waited |-> 0]

\* let lastRequestTime = 0: the first call finds elapsed far above the delay.
FetcherIdle ==
  /\ elapsed = MIN_DELAY_MS
  /\ sincePrevious = MIN_DELAY_MS
  /\ gap = MIN_DELAY_MS
  /\ calls = [c \in Calls |-> IdleCall]

Saturate(t) == IF t < MIN_DELAY_MS THEN t ELSE MIN_DELAY_MS

\* ------------------------------------------------------ the ingestion loop

ActIds == {a.id : a \in KEY_CANADIAN_ACTS}

\* A file of data/source: absent, or the page written to it.
NoFile == [exists |-> FALSE, html |-> <<>>]

HtmlFile(h) == [exists |-> TRUE, html |-> h]

\* A file of data/seed: absent, unreadable as JSON, or the document written
\* to it, of which the loop reads provisions.length and definitions.length.
NoSeed == [kind |-> "none", provisions |-> 0, definitions |-> 0]

CorruptSeed == [kind |-> "corrupt", provisions |-> 0, definitions |-> 0]

SeedOf(parsed) ==
  [kind |-> "seed", provisions |-> Len(parsed.provisions),
   definitions |-> Len(parsed.definitions)]

\* No fetch in this turn of the loop.
NoResult == [fetched |-> FALSE, status |-> 0, body |-> <<>>]

FetchResult(status, body) == [fetched |-> TRUE, status |-> status, body |-> body]

\* { act: act.shortName, provisions, definitions, status }
Row(a, provisions, definitions, status) ==
  [act |-> a.shortName, provisions |-> provisions, definitions |-> definitions,
   status |-> status]

\* `HTTP ${result.status}` for the statuses of the model.
HttpStatusText(status) ==
  CASE status = 404 -> "HTTP 404"
    [] status = 429 -> "HTTP 429"
    [] status = 500 -> "HTTP 500"
    [] OTHER -> "HTTP 200"

\* Variant: only the first failure text is looked for.
SoftNotFoundFirstMarkerOnly(body) ==
  \E i \in 1..Len(body) : body[i].k = "marker" /\ body[i].s = PageNotFound

\* result.body.includes('Page not Found') || result.body.includes('Error 404')
SoftNotFound(body) ==
  \E i \in 1..Len(body) : body[i].k = "marker" /\ body[i].s \in {PageNotFound, Error404}

IngestIdle ==
  /\ acts = <<>>
  /\ skipFetch = FALSE
  /\ actIndex = 1
  /\ sourceFiles = [id \in ActIds |-> NoFile]
  /\ seedFiles = [id \in ActIds |-> NoSeed]
  /\ processed = 0
  /\ skipped = 0
  /\ failed = 0
  /\ totalProvisions = 0
  /\ totalDefinitions = 0
  /\ report = <<>>
  /\ result = NoResult
  /\ parserCalls = <<>>
  /\ fetchCalls = <<>>
  /\ phase = "idle"

\* ------------------------------------------------------------ the machine

NoAct == CHOOSE a \in KEY_CANADIAN_ACTS : a.id = "pipeda"

Pipeda == {a \in KEY_CANADIAN_ACTS : a.id = "pipeda"}

NoOut == ParsedAct(NoAct, <<>>, <<>>, <<>>)

NoIn == [html |-> <<>>, act |-> NoAct, set |-> FALSE]

\* All pages of at most n elements over the alphabet E.
Pages(E, n) == UNION {[1..m -> E] : m \in 0..n}

InitOver(E, n, A) ==
  /\ html \in Pages(E, n)
  /\ act \in A
  /\ pc = "ready"
  /\ out = NoOut
  /\ firstIn = NoIn
  /\ firstOut = NoOut
  /\ seenOther = FALSE
  /\ FetcherIdle
  /\ IngestIdle
  /\ RegistryIdle

\* One call parseFullTextHtml(html, act).  The first call's arguments and
\* result are remembered, and whether a call with other arguments followed.
Parse ==
  /\ pc = "ready"
  /\ out' = parseFullTextHtml(html, act)
  /\ pc' = "done"
  /\ IF firstIn.set
     THEN /\ UNCHANGED <<firstIn, firstOut>>
          /\ seenOther' = (seenOther \/ html # firstIn.html \/ act # firstIn.act)
     ELSE /\ firstIn' = [html |-> html, act |-> act, set |-> TRUE]
          /\ firstOut' = parseFullTextHtml(html, act)
          /\ UNCHANGED seenOther
  /\ UNCHANGED <<html, act>>
  /\ UNCHANGED <<fetcherVars, ingestVars, registryVars>>

Next == Parse

\* Whole pages: failure markers beside sections, definitions and schedules.
PageElems ==
  {Marker(PageNotFound), Marker(Error404), Anchor(Str1, Str1), Defn(Organization, 8),
   SchedOpen(ScheduleBare, Transitional), DivClose}

Init == InitOver(PageElems, MaxPageElems, KEY_CANADIAN_ACTS)

Spec == Init /\ [][Next]_vars

\* Schedule blocks with and without label, title and sub-headings.
ScheduleElems ==
  {SchedOpen(Schedule1, <<>>), SchedOpen(ScheduleBare, Transitional), SchedOpen(<<>>, <<>>),
   SchedHead(PrincipleOne), SchedHead(PrincipleTwo), SchedHead(Str7), Txt(8), DivClose}

InitSchedules == InitOver(ScheduleElems, MaxElems, Pipeda)

SpecSchedules == InitSchedules /\ [][Next]_vars

\* Texts around the length floor and the content cap.
LengthElems ==
  {Anchor(Str1, Str1), Txt(7), Txt(8), Txt(7990), SchedOpen(ScheduleBare, <<>>),
   SchedHead(PrincipleOne), DivClose}

InitLengths == InitOver(LengthElems, MaxElems, Pipeda)

SpecLengths == InitLengths /\ [][Next]_vars

\* Part and Subheading headings around section anchors.
ContextElems ==
  {Anchor(Str1, Str1), Anchor(Str2, Str2), Heading(PartOne), Heading(PartTwo),
   MNote(ShortTitle), Txt(8), Hist(8)}

InitContext == InitOver(ContextElems, MaxElems, Pipeda)

SpecContext == InitContext /\ [][Next]_vars

\* Marginal notes before section anchors; with a note title of 11
\* characters, a paragraph of 1913 characters between note and anchor puts
\* the note 1999 characters before the anchor, one of 1914 puts it 2000.
TitleElems ==
  {Anchor(Str1, Str1), Anchor(Str2, Str2), MNote(ShortTitle), MNote(Definitions),
   MNote(<<>>), MNote(MarginalNotePlaceholder), Txt(1913), Txt(1914)}

InitTitles == InitOver(TitleElems, MaxElems, Pipeda)

SpecTitles == InitTitles /\ [][Next]_vars

\* Section regions: anchors, one with a drifted visible number, and the
\* blocks the cleanup removes or cuts at.
RegionElems ==
  {Anchor(Str1, Str1), Anchor(Str1, Str7), Anchor(Str2, Str2), Txt(51), Txt(8),
   MNote(ShortTitle), Hist(8), Heading(PartOne)}

InitRegions == InitOver(RegionElems, MaxElems, Pipeda)

SpecRegions == InitRegions /\ [][Next]_vars

\* Sections and schedules side by side: schedules before, behind and around
\* section anchors.
OrderElems ==
  {Anchor(Str1, Str1), Anchor(Str2, Str2), Txt(8), SchedOpen(ScheduleBare, Transitional),
   SchedHead(PrincipleOne), DivClose, SectionOpen}

InitOrder == InitOver(OrderElems, MaxElems, Pipeda)

SpecOrder == InitOrder /\ [][Next]_vars

\* Definition blocks with a term, with a blank or an empty term, without a
\* term marker and with a line break inside, in and outside section regions.
DefinitionElems ==
  {Anchor(Str1, Str1), Anchor(Str2, Str2), Defn(Organization, 8), Defn(Blank, 8),
   Defn(<<>>, 8), DefnPlain(8), DefnBroken(Organization, 8)}

InitDefinitions == InitOver(DefinitionElems, MaxElems, Pipeda)

SpecDefinitions == InitDefinitions /\ [][Next]_vars

\* Truncated pages: complete blocks, then possibly one block the end of the
\* page cuts off; schedules may lack their closing tag.
MalformedElems ==
  {Anchor(Str1, Str1), Txt(8), Defn(Organization, 8), SchedOpen(ScheduleBare, Transitional),
   SchedHead(PrincipleOne), DivClose, CutAnchor(Str2), CutDefn(Organization, 8), CutText(8)}

InitMalformed ==
  /\ InitOver(MalformedElems, MaxElems, Pipeda)
  /\ \A i \in 1..(Len(html) - 1) : html[i].k \notin CutKinds

SpecMalformed == InitMalformed /\ [][Next]_vars

\* Schedule sub-headings with and without leading numeral.
HeadingElems ==
  {SchedOpen(Schedule1, <<>>), DivClose, Txt(8), SchedHead(PrincipleOne), SchedHead(Str7),
   SchedHead(DottedHeading), SchedHead(DecimalHeading), SchedHead(LongHeading)}

InitHeadings == InitOver(HeadingElems, MaxElems, Pipeda)

SpecHeadings == InitHeadings /\ [][Next]_vars

\* Section regions with the blocks the cleanup removes and the openings it
\* cuts at.
CleanupElems ==
  {Anchor(Str1, Str1), Txt(8), MNote(ShortTitle), Hist(8), HistList(8), Heading(PartOne),
   SchedOpen(ScheduleBare, Transitional)}

InitCleanup == InitOver(CleanupElems, MaxElems, Pipeda)

SpecCleanup == InitCleanup /\ [][Next]_vars

\* Pages on which section numbers repeat, with notes and headings between
\* the anchors.
DuplicateElems ==
  {Anchor(Str1, Str1), Anchor(Str2, Str2), Txt(8), MNote(ShortTitle), Heading(PartOne)}

InitDuplicates == InitOver(DuplicateElems, MaxDuplicateElems, Pipeda)

SpecDuplicates == InitDuplicates /\ [][Next]_vars

\* Repeated calls: after a call, another page and catalog entry are loaded.
RepeatElems == {Anchor(Str1, Str1), Heading(PartOne), Txt(8)}

Reload ==
  /\ pc = "done"
  /\ html' \in Pages(RepeatElems, MaxRepeatElems)
  /\ pc' = "ready"
  /\ UNCHANGED <<act, out, firstIn, firstOut, seenOther>>
  /\ UNCHANGED <<fetcherVars, ingestVars, registryVars>>

InitRepeat == InitOver(RepeatElems, MaxRepeatElems, KEY_CANADIAN_ACTS)

NextRepeat == Parse \/ Reload

SpecRepeat == InitRepeat /\ [][NextRepeat]_vars

\* ------------------------------------------------- the fetcher's machine

\* Response statuses and response times (milliseconds) of the server, the
\* retry limits callers pass, and the pause between two calls.
Statuses == {200, 404, 429, 500}

ResponseTimes == {100, 600}

RetryLimits == {0, 1, DefaultMaxRetries}

Pauses == {100}

\* What the network does with a request: a response, or fetch rejects.
Outcomes == {[status |-> s, ok |-> TRUE] : s \in Statuses} \cup {[status |-> 0, ok |-> FALSE]}

\* Positions at which a call has ended: with a result, with the rejection of
\* fetch, with the error behind the loop.
Finished == {"returned", "rejected", "thrown"}

SetCall(c, r) == [calls EXCEPT ![c] = r]

\* Calls are made one after the other: a call starts when every earlier one
\* has returned.
Sequential(c) == \A d \in Calls : d < c => calls[d].pc \in Finished

\* fetchWithRateLimit(url, maxRetries) up to the first await: rateLimit
\* reads the clock and either sets the timer for the rest of the delay or
\* stamps lastRequestTime at once.
rateLimit(c, maxRetries) ==
  /\ calls[c].pc = "idle"
  /\ IF elapsed < MIN_DELAY_MS
     THEN /\ calls' = SetCall(c, [calls[c] EXCEPT !.pc = "limit", !.maxRetries = maxRetries,
                                                  !.timer = MIN_DELAY_MS - elapsed])
          /\ UNCHANGED elapsed
     ELSE /\ calls' = SetCall(c, [calls[c] EXCEPT !.pc = "send", !.maxRetries = maxRetries])
          /\ elapsed' = 0
  /\ UNCHANGED <<sincePrevious, gap>>
  /\ UNCHANGED <<parserVars, ingestVars, registryVars>>

\* A call made when every earlier call has ended.
Call(c, maxRetries) == Sequential(c) /\ rateLimit(c, maxRetries)

\* The timer of rateLimit fires: lastRequestTime = Date.now().
Wake(c) ==
  /\ calls[c].pc = "limit"
  /\ calls[c].timer = 0
  /\ calls' = SetCall(c, [calls[c] EXCEPT !.pc = "send"])
  /\ elapsed' = 0
  /\ UNCHANGED <<sincePrevious, gap>>
  /\ UNCHANGED <<parserVars, ingestVars, registryVars>>

\* fetch(url, ...): a request starts; after some time the server will
\* answer with some status, or the request will fail.
Send(c) ==
  /\ calls[c].pc = "send"
  /\ \E o \in Outcomes, time \in ResponseTimes :
       calls' = SetCall(c, [calls[c] EXCEPT !.pc = "inflight", !.sent = @ + 1,
                                            !.before = calls[c].status,
                                            !.waited = calls[c].sinceResponse,
                                            !.timer = time, !.arriving = o.status,
                                            !.ok = o.ok])
  /\ gap' = sincePrevious
  /\ sincePrevious' = 0
  /\ UNCHANGED elapsed
  /\ UNCHANGED <<parserVars, ingestVars, registryVars>>

\* The loop backs off and goes round again whatever the attempt number.
MayRetryOnEveryAttempt(c) == Retryable(calls[c].arriving)

\* if (response.status === 429 || response.status >= 500) and
\* if (attempt < maxRetries): the response leads to a backoff and a retry.
MayRetry(c) == Retryable(calls[c].arriving) /\ calls[c].attempt < calls[c].maxRetries

\* The response arrives: a 429 or 5xx below the retry limit starts the
\* backoff timer, anything else is read and returned; a rejection of fetch
\* leaves the call as an exception.
Respond(c) ==
  /\ calls[c].pc = "inflight"
  /\ calls[c].timer = 0
  /\ IF ~calls[c].ok
     THEN calls' = SetCall(c, [calls[c] EXCEPT !.pc = "rejected"])
     ELSE
     IF MayRetry(c)
     THEN calls' = SetCall(c, [calls[c] EXCEPT !.pc = "backoff", !.status = calls[c].arriving,
                                               !.sinceResponse = 0,
                                               !.timer = Backoff(calls[c].attempt)])
     ELSE calls' = SetCall(c, [calls[c] EXCEPT !.pc = "returned", !.status = calls[c].arriving,
                                               !.sinceResponse = 0])
  /\ UNCHANGED <<elapsed, sincePrevious, gap>>
  /\ UNCHANGED <<parserVars, ingestVars, registryVars>>

\* The backoff timer fires: continue, attempt++, and the loop test.
Retry(c) ==
  /\ calls[c].pc = "backoff"
  /\ calls[c].timer = 0
  /\ calls' = SetCall(c, [calls[c] EXCEPT !.attempt = @ + 1,
                                          !.pc = IF calls[c].attempt + 1 <= calls[c].maxRetries
                                                 THEN "send" ELSE "thrown"])
  /\ UNCHANGED <<elapsed, sincePrevious, gap>>
  /\ UNCHANGED <<parserVars, ingestVars, registryVars>>

Timed == {c \in Calls : calls[c].timer > 0}

\* Calls that run without time passing.
Runnable ==
  {c \in Calls : calls[c].pc = "send"
                 \/ (calls[c].pc \in {"limit", "inflight", "backoff"} /\ calls[c].timer = 0)}

NextTimer == CHOOSE t \in {calls[c].timer : c \in Timed} : \A d \in Timed : t <= calls[d].timer

\* Time passes: up to the next timer or response, or, while no call is
\* under way and one is still to be made, for a pause.
Advance ==
  /\ Runnable = {}
  /\ \E c \in Calls : calls[c].pc \notin Finished
  /\ \E t \in (IF Timed # {} THEN {NextTimer} ELSE Pauses) :
       /\ elapsed' = Saturate(elapsed + t)
       /\ sincePrevious' = Saturate(sincePrevious + t)
       /\ calls' = [c \in Calls |->
                      [calls[c] EXCEPT !.timer = IF @ > 0 THEN @ - t ELSE 0,
                                       !.sinceResponse = IF calls[c].pc = "backoff"
                                                         THEN @ + t ELSE @]]
  /\ UNCHANGED gap
  /\ UNCHANGED <<parserVars, ingestVars, registryVars>>

InitFetcher == InitOver({}, 0, Pipeda)

NextFetcher ==
  \/ \E c \in Calls, maxRetries \in RetryLimits : Call(c, maxRetries)
  \/ \E c \in Calls : Wake(c)
  \/ \E c \in Calls : Send(c)
  \/ \E c \in Calls : Respond(c)
  \/ \E c \in Calls : Retry(c)
  \/ Advance

SpecFetcher == InitFetcher /\ [][NextFetcher]_vars

\* Calls made without awaiting one another, in a process whose latest call
\* stamped lastRequestTime and sent its request either 100 ms ago or long ago.
SinceLastCall == {100, MIN_DELAY_MS}

\* Retry limits the concurrent calls are made with.
ConcurrentRetryLimits == {0, 1}

InitConcurrent ==
  /\ html = <<>> /\ act = NoAct /\ pc = "ready" /\ out = NoOut
  /\ firstIn = NoIn /\ firstOut = NoOut /\ seenOther = FALSE
  /\ IngestIdle
  /\ RegistryIdle
  /\ \E t \in SinceLastCall : elapsed = t /\ sincePrevious = t
  /\ gap = MIN_DELAY_MS
  /\ calls = [c \in Calls |-> IdleCall]

NextConcurrent ==
  \/ \E c \in Calls, maxRetries \in ConcurrentRetryLimits : rateLimit(c, maxRetries)
  \/ \E c \in Calls : Wake(c)
  \/ \E c \in Calls : Send(c)
  \/ \E c \in Calls : Respond(c)
  \/ \E c \in Calls : Retry(c)
  \/ Advance

SpecConcurrent == InitConcurrent /\ [][NextConcurrent]_vars

\* ------------------------------------------- the ingestion loop's machine

\* Pages the server sends: an act with a section and a definition, the
\* failure page, and a failure page that carries a section as well.
ActPage == <<Anchor(Str1, Str1), Txt(8), Defn(Organization, 8)>>

NotFoundPage == <<Marker(PageNotFound)>>

Error404Page == <<Marker(Error404), Anchor(Str1, Str1), Txt(8)>>

FetchResults ==
  {FetchResult(200, ActPage), FetchResult(200, NotFoundPage), FetchResult(200, Error404Page),
   FetchResult(404, ActPage), FetchResult(404, NotFoundPage), FetchResult(500, ActPage)}

\* for (const act of acts): the act of this turn.
InLoop == phase = "loop" /\ actIndex <= Len(acts)

Act == acts[actIndex]

\* Variant: an existing seed file counts also without --skip-fetch.
SeedCachedInEveryMode == seedFiles[Act.id].kind # "none"

\* skipFetch && fs.existsSync(seedFile)
SeedCached == skipFetch /\ seedFiles[Act.id].kind # "none"

\* fs.existsSync(sourceFile) && skipFetch
SourceCached == sourceFiles[Act.id].exists /\ skipFetch

\* The catch block writes its row and leaves the failure uncounted.
CaughtUncounted(message) ==
  /\ report' = Append(report, Row(Act, 0, 0, message))
  /\ UNCHANGED <<failed, totalProvisions, totalDefinitions>>

\* The catch clause: a row without provisions, failed++.
Caught(message) ==
  /\ report' = Append(report, Row(Act, 0, 0, message))
  /\ failed' = failed + 1
  /\ UNCHANGED <<totalProvisions, totalDefinitions>>

\* processed++ and the step of the loop.
NextAct ==
  /\ processed' = processed + 1
  /\ actIndex' = actIndex + 1
  /\ UNCHANGED <<acts, skipFetch, phase>>
  /\ UNCHANGED <<parserVars, fetcherVars, registryVars>>

\* parseFullTextHtml(html, act), the seed file, the totals and the OK row;
\* a failing write of the seed file ends in the catch clause.
ParseAndStore(h, seedWritten) ==
  LET parsed == parseFullTextHtml(h, Act)
  IN  /\ parserCalls' = Append(parserCalls, Act.id)
      /\ IF seedWritten
         THEN /\ seedFiles' = [seedFiles EXCEPT ![Act.id] = SeedOf(parsed)]
              /\ totalProvisions' = totalProvisions + Len(parsed.provisions)
              /\ totalDefinitions' = totalDefinitions + Len(parsed.definitions)
              /\ report' = Append(report, Row(Act, Len(parsed.provisions),
                                              Len(parsed.definitions), "OK"))
              /\ UNCHANGED failed
         ELSE /\ Caught("ERROR: write failed")
              /\ UNCHANGED seedFiles

\* The seed file exists in skip-fetch mode: the act is reported as cached.
Cached ==
  /\ InLoop
  /\ SeedCached
  /\ seedFiles[Act.id].kind = "seed"
  /\ LET existing == seedFiles[Act.id]
     IN  /\ report' = Append(report, Row(Act, existing.provisions, existing.definitions,
                                         "cached"))
         /\ totalProvisions' = totalProvisions + existing.provisions
         /\ totalDefinitions' = totalDefinitions + existing.definitions
  /\ skipped' = skipped + 1
  /\ result' = NoResult
  /\ NextAct
  /\ UNCHANGED <<sourceFiles, seedFiles, failed, parserCalls>>
  /\ UNCHANGED fetchCalls

\* JSON.parse of an unreadable seed file throws outside the try block: the
\* run ends in main().catch.
CachedUnreadable ==
  /\ InLoop
  /\ SeedCached
  /\ seedFiles[Act.id].kind = "corrupt"
  /\ phase' = "aborted"
  /\ result' = NoResult
  /\ UNCHANGED <<acts, skipFetch, actIndex, sourceFiles, seedFiles, processed, skipped, failed,
                 totalProvisions, totalDefinitions, report, parserCalls>>
  /\ UNCHANGED <<parserVars, fetcherVars, registryVars>>
  /\ UNCHANGED fetchCalls

\* The source file exists in skip-fetch mode: it is parsed without a fetch.
UseCachedSource(seedWritten) ==
  /\ InLoop
  /\ ~SeedCached
  /\ SourceCached
  /\ ParseAndStore(sourceFiles[Act.id].html, seedWritten)
  /\ result' = NoResult
  /\ NextAct
  /\ UNCHANGED <<sourceFiles, skipped>>
  /\ UNCHANGED fetchCalls

\* fetchActFullText throws: the catch clause.
FetchRejected ==
  /\ InLoop
  /\ ~SeedCached
  /\ ~SourceCached
  /\ Caught("ERROR: fetch failed")
  /\ result' = NoResult
  /\ NextAct
  /\ UNCHANGED <<sourceFiles, seedFiles, skipped, parserCalls>>
  /\ fetchCalls' = Append(fetchCalls, Act.id)

\* result.status !== 200
SkipHttpError(r) ==
  /\ InLoop
  /\ ~SeedCached
  /\ ~SourceCached
  /\ r.status # 200
  /\ result' = r
  /\ report' = Append(report, Row(Act, 0, 0, HttpStatusText(r.status)))
  /\ failed' = failed + 1
  /\ NextAct
  /\ UNCHANGED <<sourceFiles, seedFiles, skipped, totalProvisions, totalDefinitions,
                 parserCalls>>
  /\ fetchCalls' = Append(fetchCalls, Act.id)

\* A 200 response with the failure page.
SkipSoftNotFound(r) ==
  /\ InLoop
  /\ ~SeedCached
  /\ ~SourceCached
  /\ r.status = 200
  /\ SoftNotFound(r.body)
  /\ result' = r
  /\ report' = Append(report, Row(Act, 0, 0, "soft 404"))
  /\ failed' = failed + 1
  /\ NextAct
  /\ UNCHANGED <<sourceFiles, seedFiles, skipped, totalProvisions, totalDefinitions,
                 parserCalls>>
  /\ fetchCalls' = Append(fetchCalls, Act.id)

\* A 200 response with a page: the source file is written, the page parsed
\* and the seed file written.
FetchAndParse(r, seedWritten) ==
  /\ InLoop
  /\ ~SeedCached
  /\ ~SourceCached
  /\ r.status = 200
  /\ ~SoftNotFound(r.body)
  /\ result' = r
  /\ sourceFiles' = [sourceFiles EXCEPT ![Act.id] = HtmlFile(r.body)]
  /\ ParseAndStore(r.body, seedWritten)
  /\ NextAct
  /\ UNCHANGED skipped
  /\ fetchCalls' = Append(fetchCalls, Act.id)

\* A 200 response with a page, and the write of the source file fails.
SourceWriteFailed(r) ==
  /\ InLoop
  /\ ~SeedCached
  /\ ~SourceCached
  /\ r.status = 200
  /\ ~SoftNotFound(r.body)
  /\ result' = r
  /\ Caught("ERROR: write failed")
  /\ NextAct
  /\ UNCHANGED <<sourceFiles, seedFiles, skipped, parserCalls>>
  /\ fetchCalls' = Append(fetchCalls, Act.id)

\* The loop is over: the summary is printed.
Summary ==
  /\ phase = "loop"
  /\ actIndex > Len(acts)
  /\ phase' = "done"
  /\ UNCHANGED <<acts, skipFetch, actIndex, sourceFiles, seedFiles, processed, skipped, failed,
                 totalProvisions, totalDefinitions, report, result, parserCalls>>
  /\ UNCHANGED <<parserVars, fetcherVars, registryVars>>
  /\ UNCHANGED fetchCalls

\* Lists of at most n catalog entries.
ActLists(n) == UNION {[1..m -> KEY_CANADIAN_ACTS] : m \in 0..n}

\* A run starts on directories left by earlier runs.
InitIngest ==
  /\ html = <<>> /\ act = NoAct /\ pc = "ready" /\ out = NoOut
  /\ firstIn = NoIn /\ firstOut = NoOut /\ seenOther = FALSE
  /\ FetcherIdle
  /\ RegistryIdle
  /\ acts \in ActLists(MaxActs)
  /\ skipFetch \in BOOLEAN
  /\ actIndex = 1
  /\ sourceFiles \in [ActIds -> {NoFile, HtmlFile(ActPage)}]
  /\ seedFiles \in [ActIds -> {NoSeed, CorruptSeed, SeedOf(parseFullTextHtml(ActPage, NoAct))}]
  /\ processed = 0
  /\ skipped = 0
  /\ failed = 0
  /\ totalProvisions = 0
  /\ totalDefinitions = 0
  /\ report = <<>>
  /\ result = NoResult
  /\ parserCalls = <<>>
  /\ fetchCalls = <<>>
  /\ phase = "loop"

NextIngest ==
  \/ Cached
  \/ CachedUnreadable
  \/ \E seedWritten \in BOOLEAN : UseCachedSource(seedWritten)
  \/ FetchRejected
  \/ \E r \in FetchResults : SkipHttpError(r)
  \/ \E r \in FetchResults : SkipSoftNotFound(r)
  \/ \E r \in FetchResults, seedWritten \in BOOLEAN : FetchAndParse(r, seedWritten)
  \/ \E r \in FetchResults : SourceWriteFailed(r)
  \/ Summary

SpecIngest == InitIngest /\ [][NextIngest]_vars

\* ---------------------------------------------------- the registry's machine

\* A request arrives.
Receive(method, name, args) ==
  /\ response # NoResponse \/ request = NoRequest
  /\ request' = [method |-> method, name |-> name, arguments |-> args]
  /\ response' = NoResponse
  /\ UNCHANGED <<context, definitionsTable, builtAt, allTools>>
  /\ UNCHANGED <<parserVars, fetcherVars, ingestVars>>

\* The tools/list handler: the list built at registration.
ListTools ==
  /\ request.method = "tools/list"
  /\ response = NoResponse
  /\ response' = [kind |-> "tools", tools |-> allTools]
  /\ UNCHANGED <<context, definitionsTable, builtAt, allTools, request>>
  /\ UNCHANGED <<parserVars, fetcherVars, ingestVars>>

\* The tools/call handler.
CallTool(failing) ==
  /\ request.method = "tools/call"
  /\ response = NoResponse
  /\ response' = CallToolResult(request.name, request.arguments, failing)
  /\ UNCHANGED <<context, definitionsTable, builtAt, allTools, request>>
  /\ UNCHANGED <<parserVars, fetcherVars, ingestVars>>

\* Names clients ask for: the tools of the server, a tool that is planned
\* but not there, and no name.
RequestNames ==
  {TOOLS[i] : i \in 1..Len(TOOLS)} \cup {LIST_SOURCES_TOOL, ABOUT_TOOL, "get_definitions", ""}

\* Citations of the registry runs.
Section5Pipeda ==
  <<"S", "e", "c", "t", "i", "o", "n", " ", "5", " ", "P", "I", "P", "E", "D", "A">>

RegistryArguments ==
  {NoArguments} \cup
  {CitationArguments(c, f) : c \in {Section5Pipeda, <<"P", "I", "P", "E", "D", "A">>},
                             f \in {Undefined, "short"}}

\* registerTools(server, db, context) on some database.
InitRegistry ==
  /\ html = <<>> /\ act = NoAct /\ pc = "ready" /\ out = NoOut
  /\ firstIn = NoIn /\ firstOut = NoOut /\ seenOther = FALSE
  /\ FetcherIdle
  /\ IngestIdle
  /\ context \in BOOLEAN
  /\ definitionsTable \in BOOLEAN
  /\ builtAt \in {Undefined, "2026-01-01T00:00:00Z"}
  /\ allTools = buildTools(definitionsTable, context)
  /\ request = NoRequest
  /\ response = NoResponse

NextRegistry ==
  \/ Receive("tools/list", "", NoArguments)
  \/ \E name \in RequestNames, args \in RegistryArguments : Receive("tools/call", name, args)
  \/ ListTools
  \/ \E failing \in BOOLEAN : CallTool(failing)

SpecRegistry == InitRegistry /\ [][NextRegistry]_vars

\* =================================================================== claims

Done == pc = "done"

SchedToken == <<"s", "c", "h", "e", "d", "-">>

FromSchedule(p) == IsPrefix(SchedToken, p.provision_ref)

Range(f) == {f[x] : x \in DOMAIN f}

AnchorsOf(h) == Indices(h, {"anchor"})

\* Index of the first anchor behind anchor a, 0 when a is the last one.
NextAnchor(h, a) ==
  LET later == {b \in AnchorsOf(h) : b > a} IN IF later = {} THEN 0 ELSE MinOf(later)

\* The text extracted for the anchor at element a, before the cap.
AnchorText(h, a) == SectionText(h, a, NextAnchor(h, a), h[a].s)

MaxOf(S) == CHOOSE x \in S : \A y \in S : y <= x

HasMarker(h) ==
  \E i \in 1..Len(h) : h[i].k = "marker" /\ (h[i].s = PageNotFound \/ h[i].s = Error404)

\* C1: a page that contains "Page not Found" or "Error 404" parses to a
\* document with no provisions and no definitions, whatever else the page
\* holds, and with the id, title, status, dates and url of the catalog entry.
C1_SoftNotFoundIsEmpty ==
  (Done /\ HasMarker(html)) =>
     /\ out.provisions = <<>>
     /\ out.definitions = <<>>
     /\ out.id = act.id
     /\ out.title = act.title
     /\ out.status = act.status
     /\ out.issued_date = act.issuedDate
     /\ out.in_force_date = act.inForceDate
     /\ out.url = act.url

\* A parsed page with the second marker whose sections, definitions and
\* schedules would all have been extracted.
C1_Witness ==
  /\ Done
  /\ \E i \in 1..Len(html) : html[i].k = "marker" /\ html[i].s = Error404
  /\ extractSections(html) # <<>>
  /\ extractDefinitions(html, <<"2">>) # <<>>
  /\ extractSchedules(html).provisions # <<>>
  /\ out.provisions = <<>>

\* C2: no two provisions of a returned document have the same provision_ref.
C2_RefsUnique ==
  Done => \A x, y \in 1..Len(out.provisions) :
            x # y => out.provisions[x].provision_ref # out.provisions[y].provision_ref

\* The pre-cap texts of the schedule blocks of a page: per match with a
\* label, the heading blocks or, without headings, the whole schedule.
ScheduleTextsOf(h, m) ==
  LET frag == ScheduleHtml(m[1], m[2])
      heads == headingPositions(h, frag)
  IN IF LabelItem(h, frag) = 0 THEN {}
     ELSE IF heads # <<>>
          THEN {stripHtml(h, HeadingBlock(frag, heads, x)) : x \in 1..Len(heads)}
          ELSE {stripHtml(h, WithoutHistory(h, frag))}

ScheduleTexts(h) == UNION {ScheduleTextsOf(h, m) : m \in Range(ScheduleMatches(h, 1))}

SectionTexts(h, num) == {AnchorText(h, a) : a \in {b \in AnchorsOf(h) : h[b].s = num}}

\* C3: every provision's text was at least 10 characters long before the
\* cap and is stored with at most 8000 characters; a section number whose
\* anchors all have less than 10 characters of text has no provision, and a
\* section text of exactly 10 characters is retained.
C3_LengthFloorAndCap ==
  Done =>
    /\ \A x \in 1..Len(out.provisions) :
         LET p == out.provisions[x]
             texts == IF FromSchedule(p) THEN ScheduleTexts(html)
                      ELSE SectionTexts(html, p.section)
         IN /\ TextLen(p.content) <= 8000
            /\ \E t \in texts : /\ TextLen(t) >= 10
                                /\ p.content = Substring(t, 8000)
                                /\ TextLen(p.content) = Min(TextLen(t), 8000)
    /\ ~HasMarker(html) =>
         \A a \in AnchorsOf(html) :
           LET ref == <<"s">> \o html[a].s
               kept == \E x \in 1..Len(out.provisions) : out.provisions[x].provision_ref = ref
           IN /\ (\A t \in SectionTexts(html, html[a].s) : TextLen(t) < 10) => ~kept
              /\ TextLen(AnchorText(html, a)) = 10 => kept

\* A section text of exactly 10 characters is retained as a provision.
C3_Witness ==
  /\ Done
  /\ \E a \in AnchorsOf(html) :
       /\ TextLen(AnchorText(html, a)) = 10
       /\ \E x \in 1..Len(out.provisions) :
            /\ out.provisions[x].provision_ref = <<"s">> \o html[a].s
            /\ TextLen(out.provisions[x].content) = 10

ProducingAnchor(h, num) ==
  MaxOf({a \in AnchorsOf(h) : h[a].s = num /\ TextLen(AnchorText(h, a)) >= 10})

HeadingsBefore(h, a) == {i \in Indices(h, {"head"}) : MatchPos(h, i) < MatchPos(h, a)}

SectionProvisionsOf(doc) ==
  {x \in 1..Len(doc.provisions) : ~FromSchedule(doc.provisions[x])}

\* C5: the chapter of a section provision is the label of the last heading
\* whose offset is below the offset of the section's anchor, and is empty
\* when no heading precedes the anchor.
C5_ChapterIsLastPrecedingHeading ==
  Done => \A x \in SectionProvisionsOf(out) :
            LET p == out.provisions[x]
                a == ProducingAnchor(html, p.section)
                before == HeadingsBefore(html, a)
            IN p.chapter = IF before = {} THEN <<>> ELSE stripText(html[MaxOf(before)].s)

\* A section behind two headings with different labels takes the second.
C5_Witness ==
  /\ Done
  /\ \E x \in SectionProvisionsOf(out) :
       LET p == out.provisions[x]
           before == HeadingsBefore(html, ProducingAnchor(html, p.section))
       IN /\ \E i, j \in before : i < j /\ html[i].s # html[j].s
          /\ p.chapter = PartTwo

\* Marginal notes the extraction retains: text neither empty nor the bare
\* "Marginal note:".
RetainedNotesBefore(h, a) ==
  {i \in Indices(h, {"mn"}) :
     /\ stripText(h[i].s) # <<>>
     /\ stripText(h[i].s) # MarginalNotePlaceholder
     /\ MatchPos(h, i) < MatchPos(h, a)}

\* C6: the title of a section provision is the text of the nearest retained
\* marginal note before the anchor when that note lies less than 2000
\* characters before it, and is empty otherwise.
C6_TitleIsNearestNoteInWindow ==
  Done => \A x \in SectionProvisionsOf(out) :
            LET p == out.provisions[x]
                a == ProducingAnchor(html, p.section)
                notes == RetainedNotesBefore(html, a)
            IN p.title = IF notes = {} THEN <<>>
                         ELSE IF MatchPos(html, a) - MatchPos(html, MaxOf(notes)) < 2000
                              THEN stripText(html[MaxOf(notes)].s)
                              ELSE <<>>

\* A note exactly 1999 characters before the anchor is attached.
C6_Witness ==
  /\ Done
  /\ \E x \in SectionProvisionsOf(out) :
       LET p == out.provisions[x]
           a == ProducingAnchor(html, p.section)
           notes == RetainedNotesBefore(html, a)
       IN /\ notes # {}
          /\ MatchPos(html, a) - MatchPos(html, MaxOf(notes)) = 1999
          /\ p.title = stripText(html[MaxOf(notes)].s)
          /\ p.title # <<>>

ShortTitleScenario == <<Anchor(Str1, Str1), Txt(51), Anchor(Str2, Str2)>>

\* C7: the content of a section provision holds only text located between
\* its anchor (inclusive) and the next anchor (exclusive) or the page end.
\* For anchors s-1 and s-2 around a 53-character region starting "1 " there
\* is one provision, s1, whose content starts with 1 and stops before s-2.
C7_ContentWithinRegion ==
  Done =>
    /\ \A x \in SectionProvisionsOf(out) :
         LET p == out.provisions[x]
             a == ProducingAnchor(html, p.section)
             b == NextAnchor(html, a)
         IN \A y \in 1..Len(p.content) :
              /\ p.content[y].src >= a
              /\ b # 0 => p.content[y].src < b
    /\ html = ShortTitleScenario =>
         /\ Len(out.provisions) = 1
         /\ out.provisions[1].provision_ref = <<"s", "1">>
         /\ out.provisions[1].content[1].str = <<"1">>
         /\ TextLen(out.provisions[1].content) = 53
         /\ \A y \in 1..Len(out.provisions[1].content) : out.provisions[1].content[y].src < 3

\* The two-anchor page, parsed.
C7_Witness ==
  /\ Done
  /\ html = ShortTitleScenario
  /\ Len(out.provisions) = 1
  /\ out.provisions[1].content # <<>>

\* The label "SCHEDULE 1" / "SCHEDULE" in lower case without whitespace.
LowerNoSpace(label) ==
  CASE label = Schedule1 -> <<"s", "c", "h", "e", "d", "u", "l", "e", "1">>
    [] label = ScheduleBare -> <<"s", "c", "h", "e", "d", "u", "l", "e">>

\* The provisions whose text starts inside the schedule match m.
ProvisionsOfMatch(doc, m) ==
  SelectSeq(doc.provisions, LAMBDA p : p.content[1].src \in m[1]..m[2])

MatchFragment(m) == ScheduleHtml(m[1], m[2])

MatchLabel(h, m) ==
  LET lab == LabelItem(h, MatchFragment(m)) IN
  IF lab = 0 THEN <<>> ELSE stripText(h[MatchFragment(m)[lab].i].s)

\* Page indices of the sub-headings of the schedule match m, in page order.
MatchHeadings(h, m) ==
  LET frag == MatchFragment(m)
      heads == headingPositions(h, frag)
  IN [x \in 1..Len(heads) |-> frag[heads[x]].i]

AllBlocksLong(h, m) ==
  LET frag == MatchFragment(m)
      heads == headingPositions(h, frag)
  IN \A x \in 1..Len(heads) : TextLen(stripHtml(h, HeadingBlock(frag, heads, x))) > 10

SchedSchedule1 ==
  <<"s", "c", "h", "e", "d", "-", "s", "c", "h", "e", "d", "u", "l", "e", "1", "-">>

TwoPrinciples ==
  <<SchedOpen(Schedule1, <<>>), SchedHead(PrincipleOne), SchedHead(PrincipleTwo), DivClose>>

\* C8: a labelled schedule with k >= 1 sub-headings whose blocks are all
\* longer than 10 characters yields k provisions, one per sub-heading in
\* page order, each with the text from its sub-heading up to the next one
\* or the schedule end; under "SCHEDULE 1" the sub-headings "1 ..." and
\* "2 ..." get the references sched-schedule1-1 and sched-schedule1-2.
C8_OneProvisionPerSubHeading ==
  Done => \A m \in Range(ScheduleMatches(html, 1)) :
    LET hs == MatchHeadings(html, m)
        ps == ProvisionsOfMatch(out, m)
    IN (MatchLabel(html, m) # <<>> /\ hs # <<>> /\ AllBlocksLong(html, m)) =>
         /\ Len(ps) = Len(hs)
         /\ \A x \in 1..Len(hs) :
              /\ ps[x].title = stripText(html[hs[x]].s)
              /\ ps[x].content[1].src = hs[x]
              /\ \A y \in 1..Len(ps[x].content) :
                   /\ ps[x].content[y].src >= hs[x]
                   /\ ps[x].content[y].src <= m[2]
                   /\ x < Len(hs) => ps[x].content[y].src < hs[x + 1]
              /\ (MatchLabel(html, m) = Schedule1 /\ html[hs[x]].s = PrincipleOne)
                   => ps[x].provision_ref = SchedSchedule1 \o <<"1">>
              /\ (MatchLabel(html, m) = Schedule1 /\ html[hs[x]].s = PrincipleTwo)
                   => ps[x].provision_ref = SchedSchedule1 \o <<"2">>

\* "SCHEDULE 1" with the sub-headings "1 Principle one" and "2 Principle
\* two", parsed into two provisions.
C8_Witness ==
  /\ Done
  /\ html = TwoPrinciples
  /\ Len(out.provisions) = 2
  /\ out.provisions[1].provision_ref = SchedSchedule1 \o <<"1">>
  /\ out.provisions[2].provision_ref = SchedSchedule1 \o <<"2">>

WholeText(h, m) == stripHtml(h, WithoutHistory(h, MatchFragment(m)))

\* What a schedule without sub-heading yields when it yields a provision.
KeyedByLabel(h, m, ps) ==
  /\ Len(ps) = 1
  /\ ps[1].provision_ref = SchedToken \o LowerNoSpace(MatchLabel(h, m))
  /\ ps[1].section = MatchLabel(h, m)

\* C9 as stated: every schedule with a label and no sub-heading yields
\* exactly one provision, keyed "sched-" and the lower-cased label without
\* whitespace, with the label as section; a schedule without label yields
\* none.
C9_AsStated ==
  Done => \A m \in Range(ScheduleMatches(html, 1)) :
    LET ps == ProvisionsOfMatch(out, m) IN
    /\ (MatchLabel(html, m) # <<>> /\ MatchHeadings(html, m) = <<>>) => KeyedByLabel(html, m, ps)
    /\ MatchLabel(html, m) = <<>> => ps = <<>>

\* C9: a schedule with a label and no sub-heading yields exactly one
\* provision when its text, historical notes removed, is longer than 10
\* characters, and none otherwise; the provision is keyed "sched-" and the
\* lower-cased label without whitespace and has the label as section.  A
\* schedule without label yields none.
C9_WholeScheduleAboveFloor ==
  Done => \A m \in Range(ScheduleMatches(html, 1)) :
    LET ps == ProvisionsOfMatch(out, m) IN
    /\ (MatchLabel(html, m) # <<>> /\ MatchHeadings(html, m) = <<>>) =>
         IF TextLen(WholeText(html, m)) > 10 THEN KeyedByLabel(html, m, ps) ELSE ps = <<>>
    /\ MatchLabel(html, m) = <<>> => ps = <<>>

\* "SCHEDULE" titled "Transitional Provisions", without sub-heading, parsed
\* into the one provision sched-schedule.
C9_Witness ==
  /\ Done
  /\ html = <<SchedOpen(ScheduleBare, Transitional), DivClose>>
  /\ Len(out.provisions) = 1
  /\ out.provisions[1].provision_ref = SchedToken \o <<"s", "c", "h", "e", "d", "u", "l", "e">>
  /\ out.provisions[1].section = ScheduleBare

\* The number of provisions that come from section anchors; they stand
\* before those from schedules.
SectionCount(h) == IF HasMarker(h) THEN 0 ELSE Len(extractSections(h))

LabelsOf(h) == {stripText(h[i].s) : i \in {j \in Indices(h, {"sched"}) : h[j].s # <<>>}}

\* C10: every reference of a schedule provision starts with "sched-" and
\* the normalized label of a schedule, no reference of a section provision
\* starts with "sched-", and the two kinds never share a reference.
C10_DisjointNamespaces ==
  Done =>
    LET n == SectionCount(html)
        ref(x) == out.provisions[x].provision_ref
    IN /\ \A x \in 1..n :
            /\ ~IsPrefix(SchedToken, ref(x))
            /\ \E a \in AnchorsOf(html) : ref(x) = <<"s">> \o html[a].s
       /\ \A y \in (n + 1)..Len(out.provisions) :
            \E label \in LabelsOf(html) : IsPrefix(SchedToken \o LowerNoSpace(label), ref(y))
       /\ \A x \in 1..n : \A y \in (n + 1)..Len(out.provisions) : ref(x) # ref(y)

\* A document with a section provision and a schedule provision.
C10_Witness ==
  /\ Done
  /\ SectionCount(html) >= 1
  /\ Len(out.provisions) > SectionCount(html)
  /\ out.provisions[1].provision_ref = <<"s", "1">>
  /\ IsPrefix(SchedToken, out.provisions[Len(out.provisions)].provision_ref)

\* The section numbers that have an anchor whose text reaches the floor,
\* and the first such anchor of a number.
RetainedAnchors(h) == {a \in AnchorsOf(h) : TextLen(AnchorText(h, a)) >= 10}

RetainedNums(h) == {h[a].s : a \in RetainedAnchors(h)}

FirstRetainedAnchor(h, num) == MinOf({a \in RetainedAnchors(h) : h[a].s = num})

\* C11: the provisions are all section provisions, in the page order of
\* their anchors (for a repeated number, of its first retained anchor),
\* followed by all schedule provisions in page order; no schedule provision
\* stands before a section provision.
C11_SectionsThenSchedules ==
  (Done /\ ~HasMarker(html)) =>
    LET n == Cardinality(RetainedNums(html))
        ps == out.provisions
    IN /\ Len(ps) >= n
       /\ {ps[x].section : x \in 1..n} = RetainedNums(html)
       /\ \A x \in 1..n : ps[x].provision_ref = <<"s">> \o ps[x].section
       /\ \A x, y \in 1..n :
            x < y => FirstRetainedAnchor(html, ps[x].section)
                       < FirstRetainedAnchor(html, ps[y].section)
       /\ \A y \in (n + 1)..Len(ps) :
            /\ FromSchedule(ps[y])
            /\ html[ps[y].content[1].src].k \in {"sched", "shead"}
       /\ \A x, y \in (n + 1)..Len(ps) : x < y => ps[x].content[1].src < ps[y].content[1].src

\* A schedule that opens before a section anchor in the page, with its
\* provision behind the section's.
C11_Witness ==
  /\ Done
  /\ Len(out.provisions) = 2
  /\ ~FromSchedule(out.provisions[1])
  /\ FromSchedule(out.provisions[2])
  /\ out.provisions[2].content[1].src < ProducingAnchor(html, out.provisions[1].section)

\* Page indices, in page order, of the elements of the given set.
InOrder(S) == SortedSeq(S)

\* The definitions of the document are those of the blocks ix, one each, in
\* that order.
DefinitionsAre(h, doc, ix) ==
  /\ Len(doc.definitions) = Len(ix)
  /\ \A x \in 1..Len(ix) :
       /\ doc.definitions[x].term = stripText(h[ix[x]].s)
       /\ \A y \in 1..Len(doc.definitions[x].definition) :
            doc.definitions[x].definition[y].src = ix[x]

\* C12: the definitions of the document are the Definition blocks that
\* carry a defined-term marker with a term, one definition per block, in
\* page order, duplicates kept; a block without marker yields none.
C12_DefinitionsPerTermBlock ==
  Done => DefinitionsAre(html, out,
            InOrder({i \in 1..Len(html) :
                       html[i].k \in {"def", "defbroken"} /\ stripText(html[i].s) # <<>>}))

\* C13: every definition of the document has the source_provision "s2".
C13_FixedSourceProvision ==
  Done => \A x \in 1..Len(out.definitions) : out.definitions[x].source_provision = <<"s", "2">>

\* A definition whose block stands in the region of section 1, in a
\* document that has no provision s2.
C13_Witness ==
  /\ Done
  /\ out.definitions # <<>>
  /\ \E a \in AnchorsOf(html) :
       /\ html[a].s = Str1
       /\ a < out.definitions[1].definition[1].src
       /\ NextAnchor(html, a) = 0
  /\ \E x \in 1..Len(out.provisions) : out.provisions[x].provision_ref = <<"s", "1">>
  /\ \A x \in 1..Len(out.provisions) : out.provisions[x].provision_ref # <<"s", "2">>

CountOf(h, kinds) == Cardinality(Indices(h, kinds))

Terminator(h, i) ==
  LET ends == {j \in (i + 1)..Len(h) : h[j].k \in {"sched", "section", "footer"}}
  IN IF ends = {} THEN Len(h) + 1 ELSE MinOf(ends)

\* The Schedule opening a piece of schedule text belongs to.
OpeningBefore(h, src) == MaxOf({i \in 1..src : h[i].k = "sched"})

\* C15: the extent of a schedule runs from its opening to the earliest
\* following Schedule opening, section container, footer or page end; the
\* provisions of a schedule hold no text behind that terminator, and every
\* schedule of the page is extracted as its own schedule.
C15_ExtentToEarliestTerminator ==
  (Done /\ ~HasMarker(html)) =>
    /\ \A x \in 1..Len(out.provisions) :
         LET p == out.provisions[x]
             i == OpeningBefore(html, p.content[1].src)
         IN FromSchedule(p) =>
              \A y \in 1..Len(p.content) : p.content[y].src < Terminator(html, i)
    /\ \A i \in Indices(html, {"sched"}) :
         LET extent == Full(i, Terminator(html, i) - 1) IN
         (/\ html[i].s # <<>>
          /\ \A j \in i..(Terminator(html, i) - 1) : html[j].k # "shead"
          /\ TextLen(stripHtml(html, extent)) > 10)
           => \E x \in 1..Len(out.provisions) : out.provisions[x].content[1].src = i

\* Length of the numeral a text begins with: digits, optionally a dot and
\* digits; 0 when the text does not begin with a digit.
LeadingNumeralLen(t) ==
  LET d1 == DigitRun(t, 1)
      d2 == IF d1 + 1 <= Len(t) /\ t[d1 + 1] = "." THEN DigitRun(t, d1 + 2) ELSE 0
  IN IF d1 = 0 THEN 0 ELSE d1 + (IF d2 > 0 THEN 1 + d2 ELSE 0)

First20(t) == SubSeq(t, 1, Min(20, Len(t)))

\* Every provision of a sub-heading has the suffix and section that
\* Expected gives for the text of its heading.
SuffixesAre(Expected(_)) ==
  Done => \A x \in 1..Len(out.provisions) :
    LET p == out.provisions[x]
        e == html[p.content[1].src]
    IN e.k = "shead" =>
         /\ p.section = Expected(stripText(e.s))
         /\ p.provision_ref = SchedSchedule1 \o Expected(stripText(e.s))

SuffixAsStated(t) ==
  IF LeadingNumeralLen(t) > 0 THEN SubSeq(t, 1, LeadingNumeralLen(t)) ELSE First20(t)

SuffixBeforeSpace(t) ==
  LET m == LeadingNumeralLen(t) IN
  IF m > 0 /\ m < Len(t) /\ IsSpace(t[m + 1]) THEN SubSeq(t, 1, m) ELSE First20(t)

\* C16 as stated: the suffix and section of a sub-heading's provision are
\* the numeral the heading begins with, whatever follows it, and the first
\* 20 characters of the heading when it begins with no numeral.
C16_AsStated == SuffixesAre(SuffixAsStated)

\* C16: the suffix and section of a sub-heading's provision are the numeral
\* the heading begins with when whitespace follows the numeral, and the
\* first 20 characters of the heading otherwise.
C16_NumeralBeforeSpace == SuffixesAre(SuffixBeforeSpace)

\* Sub-headings "1. Accountability", "4.1 Consent" and a heading of 31
\* characters without numeral in one document.
C16_Witness ==
  /\ Done
  /\ \E x, y, z \in 1..Len(out.provisions) :
       /\ out.provisions[x].title = DottedHeading
       /\ out.provisions[x].section = DottedHeading
       /\ out.provisions[y].title = DecimalHeading
       /\ out.provisions[y].section = <<"4", ".", "1">>
       /\ out.provisions[z].title = LongHeading
       /\ Len(out.provisions[z].section) = 20

\* The end of the raw region of anchor a: the next anchor or the position
\* behind the page.
RegionEnd(h, a) == IF NextAnchor(h, a) = 0 THEN Len(h) + 1 ELSE NextAnchor(h, a)

\* The first Part / Subheading heading or Schedule opening in the region of
\* anchor a, the region end when there is none.
FirstStructure(h, a) ==
  LET found == {j \in (a + 1)..(RegionEnd(h, a) - 1) : h[j].k \in {"head", "sched"}}
  IN IF found = {} THEN RegionEnd(h, a) ELSE MinOf(found)

\* C17: the content of a section holds no text located at or behind the
\* first Part / Subheading heading or Schedule opening of its region, and
\* no text of a historical note (block or list) or marginal-note paragraph.
C17_CutAtStructureAndNotes ==
  Done => \A x \in SectionProvisionsOf(out) :
    LET p == out.provisions[x]
        a == ProducingAnchor(html, p.section)
    IN \A y \in 1..Len(p.content) :
         /\ p.content[y].src < FirstStructure(html, a)
         /\ html[p.content[y].src].k \notin {"hist", "histul", "mn"}

\* A section whose region holds a note and, behind its text, a heading or
\* Schedule opening followed by more text.
C17_Witness ==
  /\ Done
  /\ \E x \in SectionProvisionsOf(out) :
       LET a == ProducingAnchor(html, out.provisions[x].section)
           cut == FirstStructure(html, a)
       IN /\ cut < Len(html)
          /\ html[cut + 1].k = "text"
          /\ \E j \in (a + 1)..(cut - 1) : html[j].k \in {"hist", "histul", "mn"}

\* C18: one call of fetchWithRateLimit starts at most maxRetries + 1
\* requests, 4 with the default limit; every request after the first follows
\* a response with status 429 or at least 500 and starts 2^k seconds after
\* it, k being the number of the retry; a response with any other status
\* ends the call at once with that response.
C18_BoundedBackoffRetries ==
  \A c \in Calls :
    LET r == calls[c]
        k == r.sent - 1
    IN  /\ r.sent <= r.maxRetries + 1
        /\ r.maxRetries = 3 => r.sent <= 4
        /\ r.sent >= 2 => /\ r.before = 429 \/ r.before >= 500
                          /\ r.waited = (2 ^ k) * 1000
        /\ (r.status # 0 /\ r.status # 429 /\ r.status < 500) => r.pc = "returned"
        /\ r.pc # "thrown"

\* A call with the default limit has returned after three retries, the
\* last one eight seconds after a 500, and another one after a single 404.
C18_Witness ==
  \E c, d \in Calls :
    /\ calls[c].pc = "returned" /\ calls[c].maxRetries = 3 /\ calls[c].sent = 4
    /\ calls[c].before = 500 /\ calls[c].waited = 8000
    /\ calls[d].pc = "returned" /\ calls[d].sent = 1 /\ calls[d].status = 404
       /\ calls[d].maxRetries = 3

\* C19: with calls made one after the other, every request starts at least
\* 500 ms after the request before it.
C19_MinimumDelayBetweenRequests == gap >= 500

\* The latest step was a turn of the loop whose fetch returned a status
\* other than 200, or a 200 response whose body holds a failure text.
FailedFetchTurn ==
  /\ actIndex' = actIndex + 1
  /\ result'.fetched
  /\ result'.status # 200 \/ HasMarker(result'.body)

\* C20: a turn of the ingestion loop whose fetch returns a status other than
\* 200, or a 200 response with "Page not Found" or "Error 404" in the body,
\* writes neither the source file nor the seed file, does not call the
\* parser, adds a report row with 0 provisions and 0 definitions for the
\* act, counts the act as failed, and leaves the loop running at the next
\* act.
C20_FailedFetchIsSkipped ==
  [][FailedFetchTurn =>
       /\ sourceFiles' = sourceFiles
       /\ seedFiles' = seedFiles
       /\ parserCalls' = parserCalls
       /\ Len(report') = Len(report) + 1
       /\ SubSeq(report', 1, Len(report)) = report
       /\ report'[Len(report')].act = acts[actIndex].shortName
       /\ report'[Len(report')].provisions = 0
       /\ report'[Len(report')].definitions = 0
       /\ failed' = failed + 1
       /\ processed' = processed + 1
       /\ totalProvisions' = totalProvisions
       /\ totalDefinitions' = totalDefinitions
       /\ phase' = "loop"]_vars

\* A fresh run over two acts: the first was skipped on a 200 response with
\* "Error 404" beside a section, the second was fetched, parsed and stored.
C20_Witness ==
  /\ phase = "done"
  /\ ~skipFetch
  /\ Len(report) = 2
  /\ report[1].status = "soft 404" /\ report[1].provisions = 0
  /\ report[2].status = "OK" /\ report[2].provisions = 1 /\ report[2].definitions = 1
  /\ acts[1].id # acts[2].id
  /\ parserCalls = <<acts[2].id>>
  /\ failed = 1 /\ processed = 2
  /\ ~sourceFiles[acts[1].id].exists /\ seedFiles[acts[1].id].kind = "none"

\* The latest step was a turn of the loop for the act at actIndex.
LoopTurn == phase = "loop" /\ actIndex <= Len(acts) /\ (actIndex' = actIndex + 1 \/ phase' # phase)

TurnId == acts[actIndex].id

LastRow == report'[Len(report')]

\* C21: with --skip-fetch, a turn for an act whose seed file exists makes no
\* fetch, calls no parser, writes no file and, the seed holding a document,
\* reports the act as cached with the counts of that seed; a turn for an act
\* with only a source file makes no fetch and parses that file; a turn for
\* an act with neither file fetches.  Without --skip-fetch every turn
\* fetches, whatever files exist.
C21_SkipFetchUsesCachedFiles ==
  [][LoopTurn =>
       /\ (skipFetch /\ seedFiles[TurnId].kind # "none") =>
            /\ fetchCalls' = fetchCalls
            /\ parserCalls' = parserCalls
            /\ sourceFiles' = sourceFiles
            /\ seedFiles' = seedFiles
            /\ seedFiles[TurnId].kind = "seed" =>
                 /\ Len(report') = Len(report) + 1
                 /\ LastRow.status = "cached"
                 /\ LastRow.provisions = seedFiles[TurnId].provisions
                 /\ LastRow.definitions = seedFiles[TurnId].definitions
       /\ (skipFetch /\ seedFiles[TurnId].kind = "none" /\ sourceFiles[TurnId].exists) =>
            /\ fetchCalls' = fetchCalls
            /\ parserCalls' = Append(parserCalls, TurnId)
            /\ sourceFiles' = sourceFiles
            /\ LastRow.status = "OK" =>
                 /\ LastRow.provisions = 1 /\ LastRow.definitions = 1
                 /\ seedFiles'[TurnId].kind = "seed"
       /\ (skipFetch /\ seedFiles[TurnId].kind = "none" /\ ~sourceFiles[TurnId].exists) =>
            fetchCalls' = Append(fetchCalls, TurnId)
       /\ ~skipFetch => fetchCalls' = Append(fetchCalls, TurnId)]_vars

\* A --skip-fetch run over two acts ended after one act was reported from
\* its seed and the other parsed from its source file, without a fetch.
C21_Witness ==
  /\ phase = "done" /\ skipFetch /\ Len(report) = 2
  /\ report[1].status = "cached" /\ report[1].provisions = 1
  /\ report[2].status = "OK" /\ report[2].provisions = 1
  /\ fetchCalls = <<>> /\ parserCalls = <<acts[2].id>>
  /\ sourceFiles[acts[2].id].exists

\* ------------------------------------------------ format_citation's machine

TokSection == <<"S", "e", "c", "t", "i", "o", "n", " ">>

TokSDot == <<"s", ".", " ">>

TokFive == <<"5">>

TokTwelve == <<"1", "2", ".", "1", "(", "3", ")">>

TokSpacePipeda == <<" ", "P", "I", "P", "E", "D", "A">>

TokComma == <<",", " ">>

TokSpace == <<" ">>

TokYear == <<" ", "(", "2", "0", "0", "0", ")">>

\* The pieces citations are put together from.
CitationTokens ==
  {TokSection, TokSDot, TokFive, TokTwelve, TokSpacePipeda, TokComma, TokSpace, TokYear}

RECURSIVE Flatten(_)
Flatten(tokens) == IF tokens = <<>> THEN <<>> ELSE Head(tokens) \o Flatten(Tail(tokens))

TokenLists(n) == UNION {[1..m -> CitationTokens] : m \in 0..n}

Formats == {Undefined, "full", "short", "pinpoint"}

\* A format_citation call is waiting for its handler.
InitCitation ==
  /\ html = <<>> /\ act = NoAct /\ pc = "ready" /\ out = NoOut
  /\ firstIn = NoIn /\ firstOut = NoOut /\ seenOther = FALSE
  /\ FetcherIdle
  /\ IngestIdle
  /\ context = FALSE
  /\ definitionsTable = FALSE
  /\ builtAt = Undefined
  /\ allTools = buildTools(definitionsTable, context)
  /\ \E tokens \in TokenLists(MaxCitationTokens), format \in Formats :
       request = [method |-> "tools/call", name |-> "format_citation",
                  arguments |-> CitationArguments(Flatten(tokens), format)]
  /\ response = NoResponse

NextCitation == CallTool(FALSE)

SpecCitation == InitCitation /\ [][NextCitation]_vars

\* The latest request was a tools/call that succeeded.
Succeeded == response.kind = "call" /\ ~response.isError

\* C22: the value every successful tools/call returns, the one of
\* format_citation included, has a results field and a _metadata field.
C22_EveryToolReturnsToolResponse ==
  Succeeded => {"results", "_metadata"} \subseteq DOMAIN response.value

\* The citation of the latest format_citation call and the value returned.
Cited == request.arguments.citation

FormatCitationReturned ==
  /\ request.method = "tools/call" /\ request.name = "format_citation"
  /\ response.kind = "call" /\ ~response.isError

\* Section numbers and law texts of the stated forms.
StatedNumerals == {<<"5">>, <<"1", "2", ".", "1", "(", "3", ")">>}

LawPipeda == <<"P", "I", "P", "E", "D", "A">>

LawPipedaYear == LawPipeda \o <<" ", "(", "2", "0", "0", "0", ")">>

StatedLaws == {LawPipeda, LawPipedaYear}

WordSection == <<"S", "e", "c", "t", "i", "o", "n">>

WordS == <<"s", ".">>

\* "Section N <law>", "s. N <law>", "<law> Section N" and "<law>, s. N".
StatedForms(num, law) ==
  {WordSection \o <<" ">> \o num \o <<" ">> \o law,
   WordS \o <<" ">> \o num \o <<" ">> \o law,
   law \o <<" ">> \o WordSection \o <<" ">> \o num,
   law \o <<",", " ">> \o WordS \o <<" ">> \o num}

\* What the statement gives for a format, a number and a law.
StatedFormat(format, num, law) ==
  CASE format = "short" -> WordS \o <<" ">> \o num \o <<" ">> \o LawPipeda
    [] format = "pinpoint" -> WordS \o <<" ">> \o num
    [] OTHER -> WordSection \o <<" ">> \o num \o <<" ">> \o law

\* The input without the whitespace at its ends.
Inner(c) ==
  LET solid == {i \in 1..Len(c) : c[i] \notin {" ", "\t", "\n"}}
  IN  IF solid = {} THEN <<>>
      ELSE SubSeq(c, CHOOSE i \in solid : \A j \in solid : i <= j,
                  CHOOSE i \in solid : \A j \in solid : j <= i)

\* No section number is recognised in a text that holds no digit.
NoNumber(c) == \A i \in 1..Len(c) : c[i] \notin {"0", "1", "2", "3", "5"}

\* The formatted text the statement gives for a citation without the
\* whitespace at its ends.
FormattedAsStated(inner, format, formatted) ==
  /\ \A num \in StatedNumerals, law \in StatedLaws :
       inner \in StatedForms(num, law) => formatted = StatedFormat(format, num, law)
  /\ NoNumber(inner) => formatted = inner

\* C23: format_citation returns original = the input; for an input of one
\* of the four forms, formatted is "Section N <law>" for full and without a
\* format, "s. N" and the law text before its parenthesis for short, "s. N"
\* for pinpoint; for an input in which no section number is recognised,
\* formatted is the input without the whitespace at its ends.
C23_FormatsOfACitation ==
  FormatCitationReturned =>
    /\ response.value.original = Cited
    /\ FormattedAsStated(Inner(Cited), request.arguments.format, response.value.formatted)

\* "Section 5 PIPEDA (2000)" was formatted short: "s. 5 PIPEDA".
C23_Witness ==
  /\ FormatCitationReturned
  /\ Cited = WordSection \o <<" ", "5", " ">> \o LawPipedaYear
  /\ request.arguments.format = "short"
  /\ response.value.formatted = <<"s", ".", " ", "5", " ", "P", "I", "P", "E", "D", "A">>
  /\ response.value.original = Cited

\* The acts the report has a row for, in the order of the rows.
ReportedActs == [i \in 1..Len(report) |-> report[i].act]

\* C24: the loop never stops before the end of its list: every turn moves to
\* the next act, and the summary is reached with one row per act of the list,
\* in list order.
C24_EveryActIsVisited ==
  /\ phase # "aborted"
  /\ phase = "done" => ReportedActs = [i \in 1..Len(acts) |-> acts[i].shortName]

\* No call has made a second attempt: every request so far is the first
\* request of its call and follows a pass through rateLimit.
OnlyFirstAttempts == \A c \in Calls : calls[c].attempt = 0

\* C25: among calls in progress at the same time, a request that follows
\* rateLimit starts at least 500 ms after the request before it.
C25_ConcurrentStartsApart == OnlyFirstAttempts => gap >= 500

\* The call has had the response to its last permitted request, and that
\* response carries status 429 or a status of 500 and above.
Exhausted(c) ==
  /\ calls[c].sent = calls[c].maxRetries + 1
  /\ calls[c].pc # "inflight"
  /\ calls[c].ok
  /\ calls[c].arriving = 429 \/ calls[c].arriving >= 500

\* C26: a call whose every permitted request was answered with 429 or 5xx
\* has returned the status of the last response; no call ends with the
\* error behind the loop.
C26_ExhaustedRetriesReturnLastResponse ==
  \A c \in Calls :
    /\ Exhausted(c) => (calls[c].pc = "returned" /\ calls[c].status = calls[c].arriving)
    /\ calls[c].pc # "thrown"

\* A call with limit 1 got 429 and then 500 and returned the 500; a call
\* with limit 0 returned the 429 of its only request.
C26_Witness ==
  \E c, d \in Calls :
    /\ Exhausted(c) /\ calls[c].maxRetries = 1 /\ calls[c].sent = 2
    /\ calls[c].before = 429 /\ calls[c].status = 500 /\ calls[c].pc = "returned"
    /\ Exhausted(d) /\ calls[d].maxRetries = 0 /\ calls[d].sent = 1
    /\ calls[d].status = 429 /\ calls[d].pc = "returned"

RECURSIVE ColumnSum(_, _)
\* The sum of one column of the report.
ColumnSum(rows, column) ==
  IF rows = <<>> THEN 0 ELSE rows[1][column] + ColumnSum(Tail(rows), column)

\* The number of report rows with status OK.
RowsOk == Cardinality({i \in 1..Len(report) : report[i].status = "OK"})

\* C27: between the turns of the loop the report has one row per act handled
\* so far, processed is that number and is the sum of the OK rows, skipped
\* and failed, and the two totals are the sums of the report's columns.
C27_ReportAndCountersAgree ==
  phase \in {"loop", "done"} =>
    /\ Len(report) = actIndex - 1
    /\ processed = Len(report)
    /\ processed = RowsOk + skipped + failed
    /\ totalProvisions = ColumnSum(report, "provisions")
    /\ totalDefinitions = ColumnSum(report, "definitions")

\* A --skip-fetch run over two acts has ended: the first was reported from
\* its seed file, the second failed with an exception.
C27_Witness ==
  /\ phase = "done"
  /\ Len(report) = 2
  /\ report[1].status = "cached" /\ report[1].provisions = 1
  /\ report[2].status = "ERROR: write failed"
  /\ processed = 2 /\ skipped = 1 /\ failed = 1 /\ totalProvisions = 1

\* The names the switch of tools/call has a case for.
SwitchNames ==
  {"search_legislation", "get_provision", "validate_citation", "build_legal_stance",
   "format_citation", "check_currency", "get_eu_basis", "get_canadian_implementations",
   "search_eu_implementations", "get_provision_eu_basis", "validate_eu_compliance",
   "list_sources", "about"}

\* A tools/call request has been answered.
CallAnswered == request.method = "tools/call" /\ response # NoResponse

UnknownToolText(name) == <<"Error: Unknown tool \"", name, "\".">>

NotConfiguredText == <<"About tool not configured.">>

\* Messages of the exceptions handlers throw.
HandlerMessages ==
  {"SQLITE_ERROR", "Cannot read properties of undefined (reading 'trim')"}

\* C28: every tools/call request is answered with a result: for a name
\* without a case the unknown-tool error, for about without a context an
\* error, for a handler that threw "Error: " and the message, each with
\* isError; for a call that succeeded the JSON text of the value, without.
C28_CallErrorsAreResults ==
  CallAnswered =>
    /\ response.kind = "call"
    /\ IF request.name \notin SwitchNames
       THEN response.isError /\ response.text = UnknownToolText(request.name)
       ELSE IF request.name = "about" /\ ~context
       THEN response.isError
       ELSE IF response.isError
       THEN \E message \in HandlerMessages : response.text = <<"Error: ", message>>
       ELSE response.text = <<"JSON">> /\ response.value # NoValue
    /\ (request.name = "format_citation" /\ ~request.arguments.hasCitation) =>
         /\ response.isError
         /\ response.text = <<"Error: ", "Cannot read properties of undefined (reading 'trim')">>

\* format_citation was called without a citation: the TypeError of the
\* handler came back as an error result.
C28_Witness ==
  /\ CallAnswered
  /\ request.name = "format_citation" /\ ~request.arguments.hasCitation
  /\ response.isError
  /\ response.text = <<"Error: ", "Cannot read properties of undefined (reading 'trim')">>

\* The list of the statement: the 11 fixed tools, list_sources, and about
\* when a context was supplied.
StatedTools ==
  <<"search_legislation", "get_provision", "validate_citation", "build_legal_stance",
    "format_citation", "check_currency", "get_eu_basis", "get_canadian_implementations",
    "search_eu_implementations", "get_provision_eu_basis", "validate_eu_compliance",
    "list_sources">> \o (IF context THEN <<"about">> ELSE <<>>)

\* The answer is the unknown-tool error or the not-configured error.
NotDispatched ==
  /\ response.isError
  /\ response.text \in {UnknownToolText(request.name), NotConfiguredText}

RepeatedNums(h) ==
  {num \in RetainedNums(h) : Cardinality({a \in AnchorsOf(h) : h[a].s = num}) >= 2}

ProvisionsOfNumber(doc, num) ==
  {x \in SectionProvisionsOf(doc) : doc.provisions[x].section = num}

\* The place of a number among the numbers, by first retained anchor.
PlaceOfNumber(h, num) ==
  1 + Cardinality({n \in RetainedNums(h) :
                     FirstRetainedAnchor(h, n) < FirstRetainedAnchor(h, num)})

\* The title, the chapter and the content of provision p are those of the
\* anchor at element a.
TakenFromAnchor(h, p, a) ==
  /\ \A y \in 1..Len(p.content) :
       /\ p.content[y].src >= a
       /\ NextAnchor(h, a) # 0 => p.content[y].src < NextAnchor(h, a)
  /\ p.title = IF RetainedNotesBefore(h, a) = {} THEN <<>>
               ELSE stripText(h[MaxOf(RetainedNotesBefore(h, a))].s)
  /\ p.chapter = IF HeadingsBefore(h, a) = {} THEN <<>>
                 ELSE stripText(h[MaxOf(HeadingsBefore(h, a))].s)

\* C30: a section number with several anchors has exactly one provision; it
\* holds the title, chapter and content of the last anchor of the number
\* whose text reached the floor and stands at the place of the first such
\* anchor.
C30_RepeatedNumberLastWinsFirstPlace ==
  Done =>
    \A num \in RepeatedNums(html) :
      /\ ProvisionsOfNumber(out, num) = {PlaceOfNumber(html, num)}
      /\ TakenFromAnchor(html, out.provisions[PlaceOfNumber(html, num)],
                         ProducingAnchor(html, num))

\* Section 1, section 2 and section 1 again, each with a text: s1 stands
\* before s2 and holds the text behind the third anchor.
C30_Witness ==
  /\ Done
  /\ html = <<Anchor(Str1, Str1), Txt(8), Anchor(Str2, Str2), Txt(8), Anchor(Str1, Str1), Txt(8)>>
  /\ Len(out.provisions) = 2
  /\ out.provisions[1].section = Str1 /\ out.provisions[2].section = Str2
  /\ out.provisions[1].content[Len(out.provisions[1].content)].src = 6

====
